---- MODULE Spec2Model ----
(***************************************************************************)
(* A model of P_MEIS' runtime integration engine                           *)
(* (UCPP_EnhancedInputIntegration) and of its async listener               *)
(* (UAsyncAction_WaitForInputAction), together with the part of the host   *)
(* (controller, input component, Enhanced Input subsystem) they talk to.   *)
(*                                                                         *)
(* The engine's methods are operators over a record `w` ("world") holding  *)
(* the engine's fields and the host state the methods read and write; an   *)
(* action of the state machine is one call of a public method, or one step *)
(* of the host.                                                            *)
(***************************************************************************)
EXTENDS Integers, Sequences, FiniteSets, Bags, TLC

(***************************************************************************)
(* Bounds of the model.                                                    *)
(***************************************************************************)
\* How many action names callers use.
MaxNames == 2
\* How many host input component objects can be alive at once.
MaxComponents == 2
\* How many times the host collects unreferenced input action objects.
MaxGeneration == 1
\* How many times one delegate may be subscribed on one component.
MaxSubscriptions == 2
\* How many entries the mapping context may hold.
MaxMappings == 3

AllNames == <<"Jump", "Fire", "Move", "Look">>
ActionNames == {AllNames[i] : i \in 1..MaxNames}
\* Controllers of the host. A player controller may be local or not; an AI
\* controller is no APlayerController.
PlayerControllers == {"LocalPC", "RemotePC"}
Controllers == PlayerControllers \cup {"AIController"}
NoController == "nullptr"
IsLocalController(c) == c = "LocalPC"

\* Host input components are objects 1..MaxComponents; 0 is the null pointer.
Components == 1..MaxComponents
NoComponent == 0

TriggerEvents == {"Triggered", "Started", "Ongoing", "Completed", "Canceled"}
Values == {"true", "false"}

VARIABLES
    \* ---- UCPP_EnhancedInputIntegration
    PlayerController,             \* APlayerController *PlayerController
    OwningController,             \* AController *OwningController
    MappingContext,               \* UInputMappingContext *MappingContext
    CreatedInputActions,          \* TMap<FName, UInputAction *>
    BoundEnhancedInputComponent,  \* TWeakObjectPtr<UEnhancedInputComponent>
    BoundActions,                 \* TSet<FName>
    PendingBindActions,           \* TSet<FName>
    AsyncListeners,               \* TArray<UAsyncAction_WaitForInputAction *>
    InputActionObjects,           \* the UInputAction objects that exist
    Generation,                   \* how often such objects were collected
    \* ---- host
    InputComponent,               \* OwningController->InputComponent
    LiveComponents,               \* the input component objects that exist
    Subscriptions,                \* the components' action event bindings
    LocalPlayerReady,             \* GetLocalPlayer() and its subsystem exist
    SubsystemHasContext,          \* the subsystem holds MappingContext
    \* ---- UAsyncAction_WaitForInputAction objects
    Listeners,
    \* ---- UCPP_InputBindingManager, the profile files, the controllers
    PlayerDataMap,                \* TMap<APlayerController *, FS_PlayerInputData>
    ProfileTemplates,             \* TMap<FName, FS_InputProfile>
    SavedProfiles,                \* the .json files of the profile directory
    Integrations,                 \* the engines RegisterPlayer has created
    ControllerLife,               \* alive, destroyed, or collected
    managerCall,                  \* the manager's last call and its result
    \* ---- what the last call was, returned and broadcast
    lastCall,
    Emitted

vars == <<PlayerController, OwningController, MappingContext, CreatedInputActions,
          BoundEnhancedInputComponent, BoundActions, PendingBindActions,
          AsyncListeners, InputActionObjects, Generation, InputComponent,
          LiveComponents, Subscriptions, LocalPlayerReady, SubsystemHasContext, Listeners,
          PlayerDataMap, ProfileTemplates, SavedProfiles, Integrations, ControllerLife,
          managerCall, lastCall, Emitted>>

engineVars == <<PlayerController, OwningController, MappingContext,
                CreatedInputActions, BoundEnhancedInputComponent, BoundActions,
                PendingBindActions, AsyncListeners, InputActionObjects,
                Subscriptions, SubsystemHasContext>>

hostVars == <<InputComponent, LiveComponents, LocalPlayerReady, Generation>>

managerVars == <<PlayerDataMap, ProfileTemplates, SavedProfiles, Integrations,
                 ControllerLife, managerCall>>

(***************************************************************************)
(* The world record the engine's methods work on.                          *)
(***************************************************************************)
World ==
    [PlayerController |-> PlayerController,
     OwningController |-> OwningController,
     MappingContext |-> MappingContext,
     CreatedInputActions |-> CreatedInputActions,
     BoundEnhancedInputComponent |-> BoundEnhancedInputComponent,
     BoundActions |-> BoundActions,
     PendingBindActions |-> PendingBindActions,
     AsyncListeners |-> AsyncListeners,
     InputActionObjects |-> InputActionObjects,
     Generation |-> Generation,
     InputComponent |-> InputComponent,
     LocalPlayerReady |-> LocalPlayerReady,
     Subscriptions |-> Subscriptions,
     SubsystemHasContext |-> SubsystemHasContext]

\* The engine's fields and the host state its methods write become w's.
Install(w) ==
    /\ PlayerController' = w.PlayerController
    /\ OwningController' = w.OwningController
    /\ MappingContext' = w.MappingContext
    /\ CreatedInputActions' = w.CreatedInputActions
    /\ BoundEnhancedInputComponent' = w.BoundEnhancedInputComponent
    /\ BoundActions' = w.BoundActions
    /\ PendingBindActions' = w.PendingBindActions
    /\ AsyncListeners' = w.AsyncListeners
    /\ InputActionObjects' = w.InputActionObjects
    /\ Subscriptions' = w.Subscriptions
    /\ SubsystemHasContext' = w.SubsystemHasContext

\* The record of a call: the method, its name argument, what it returned (a
\* bool, or a count), whether BindActionEvents rebuilt the bindings during it,
\* and for a host event its kind and value.
Call(op, arg, ret, count, rebuilt) ==
    [op |-> op, arg |-> arg, ret |-> ret, count |-> count, rebuilt |-> rebuilt,
     event |-> "", value |-> ""]

RECURSIVE SetToSeq(_)
SetToSeq(S) ==
    IF S = {} THEN <<>>
    ELSE LET x == CHOOSE y \in S : TRUE IN <<x>> \o SetToSeq(S \ {x})

(***************************************************************************)
(* Dynamic input action creation.                                          *)
(***************************************************************************)
\* NewObject<UInputAction>(this, class, ActionName): an object of that name in
\* the same outer that was not collected yet is replaced in place and keeps its
\* identity; otherwise the object is one that never existed before.
ObjectsNamed(w, ActionName) == {o \in w.InputActionObjects : o[1] = ActionName}

NewObject(w, ActionName) ==
    IF ObjectsNamed(w, ActionName) # {}
    THEN CHOOSE o \in ObjectsNamed(w, ActionName) : TRUE
    ELSE <<ActionName, w.Generation>>

NewInputAction(w, ActionName, ValueType) ==
    [Id |-> NewObject(w, ActionName), ValueType |-> ValueType,
     bConsumeInput |-> TRUE, bTriggerWhenPaused |-> FALSE, Modifiers |-> <<>>]

GetInputAction(w, ActionName) ==
    IF ActionName \in DOMAIN w.CreatedInputActions
    THEN w.CreatedInputActions[ActionName].Id
    ELSE <<>>

HasInputAction(w, ActionName) == ActionName \in DOMAIN w.CreatedInputActions

CreateInputAction(w, ActionName, ValueType) ==
    IF ActionName \in DOMAIN w.CreatedInputActions
    THEN w
    ELSE [w EXCEPT !.CreatedInputActions =
              [n \in DOMAIN @ \cup {ActionName} |->
                  IF n = ActionName THEN NewInputAction(w, ActionName, ValueType)
                  ELSE @[n]],
                   !.InputActionObjects = @ \cup {NewObject(w, ActionName)}]

(***************************************************************************)
(* Action event binding.                                                   *)
(***************************************************************************)
\* The five BindAction calls: which handler is subscribed to which event.
BindingTable ==
    {<<"Triggered", "OnActionTriggeredInternal">>,
     <<"Started", "OnActionStartedInternal">>,
     <<"Ongoing", "OnActionOngoingInternal">>,
     <<"Completed", "OnActionCompletedInternal">>,
     <<"Canceled", "OnActionCanceledInternal">>}

NewBindings(Component, Action, ActionName) ==
    SetToBag({[Component |-> Component, Action |-> Action, TriggerEvent |-> p[1],
               Handler |-> p[2], Payload |-> ActionName] : p \in BindingTable})

\* A variant that never takes the component for another one.
ComponentNeverChanged(w) == FALSE

ComponentChanged(w) == w.BoundEnhancedInputComponent # w.InputComponent

\* A variant that takes no action for bound.
NeverBound(w, ActionName) == FALSE

AlreadyBound(w, ActionName) == ActionName \in w.BoundActions

RebuildBindings(w) ==
    [w EXCEPT !.BoundActions = {}, !.PendingBindActions = {},
              !.BoundEnhancedInputComponent = w.InputComponent]

\* Gives the engine afterwards, what the call returns, whether it emptied
\* the sets for a new component, and how many BindAction calls it made.
BindActionEvents(w, ActionName) ==
    IF w.OwningController = NoController
    THEN [w |-> w, ret |-> FALSE, rebuilt |-> FALSE, made |-> 0]
    ELSE IF ~HasInputAction(w, ActionName)
    THEN [w |-> w, ret |-> FALSE, rebuilt |-> FALSE, made |-> 0]
    ELSE IF w.InputComponent = NoComponent
    THEN [w |-> w, ret |-> FALSE, rebuilt |-> FALSE, made |-> 0]
    ELSE LET changed == ComponentChanged(w)
             w1 == IF changed THEN RebuildBindings(w) ELSE w
             new == NewBindings(w1.InputComponent, GetInputAction(w1, ActionName),
                                ActionName)
         IN  IF AlreadyBound(w1, ActionName)
             THEN [w |-> w1, ret |-> TRUE, rebuilt |-> changed, made |-> 0]
             ELSE [w |-> [w1 EXCEPT !.Subscriptions = @ (+) new,
                                    !.BoundActions = @ \cup {ActionName}],
                   ret |-> TRUE, rebuilt |-> changed, made |-> BagCardinality(new)]

\* The loop of BindAllActionEvents over the entries of CreatedInputActions.
RECURSIVE BindAllLoop(_, _)
BindAllLoop(w, names) ==
    IF names = <<>> THEN w
    ELSE LET r == BindActionEvents(w, Head(names))
             w1 == IF r.ret THEN r.w
                   ELSE [r.w EXCEPT !.PendingBindActions = @ \cup {Head(names)}]
         IN  BindAllLoop(w1, Tail(names))

BindAllActionEvents(w) == BindAllLoop(w, SetToSeq(DOMAIN w.CreatedInputActions))

HasPendingActions(w) == Cardinality(w.PendingBindActions) > 0

(***************************************************************************)
(* TryBindPendingActions ranges over PendingBindActions itself while       *)
(* BindActionEvents may Reset() that set.  `order` is the order in which   *)
(* the set yields its elements; once the set has been reset under the      *)
(* iterator, the iterator either ends the loop or goes on over the stale   *)
(* elements (`goesOn`).                                                    *)
(***************************************************************************)
RECURSIVE TryBindLoop(_, _, _, _, _)
TryBindLoop(w, order, goesOn, invalid, acc) ==
    IF order = <<>> \/ (invalid /\ ~goesOn) THEN [w |-> w, acc |-> acc]
    ELSE LET r == BindActionEvents(w, Head(order))
         IN  TryBindLoop(r.w, Tail(order), goesOn, invalid \/ r.rebuilt,
                         IF r.ret
                         THEN [SuccessfullyBound |-> acc.SuccessfullyBound \cup {Head(order)},
                               BoundCount |-> acc.BoundCount + 1,
                               rebuilt |-> acc.rebuilt \/ r.rebuilt]
                         ELSE acc)

TryBindPendingActions(w, order, goesOn) ==
    LET l == TryBindLoop(w, order, goesOn, FALSE,
                         [SuccessfullyBound |-> {}, BoundCount |-> 0, rebuilt |-> FALSE])
    IN  [w |-> [l.w EXCEPT !.PendingBindActions = @ \ l.acc.SuccessfullyBound],
         ret |-> l.acc.BoundCount, rebuilt |-> l.acc.rebuilt]

(***************************************************************************)
(* The mapping context and the local player's subsystem.                   *)
(***************************************************************************)
NoMappingContext == [Exists |-> FALSE, Mappings |-> <<>>]

EnsureMappingContext(w) == [w EXCEPT !.MappingContext.Exists = TRUE]

\* UInputMappingContext::MapKey appends a mapping, whatever is mapped already.
MapKey(w, Action, Key) ==
    [w EXCEPT !.MappingContext.Mappings =
        Append(@, [Action |-> Action, Key |-> Key, Triggers |-> <<>>, Modifiers |-> <<>>])]

UnmapAll(w) == [w EXCEPT !.MappingContext.Mappings = <<>>]

ApplyMappingContextToPlayer(w) ==
    IF w.PlayerController = NoController THEN [w |-> w, ret |-> FALSE]
    ELSE IF ~IsLocalController(w.PlayerController) THEN [w |-> w, ret |-> FALSE]
    ELSE IF ~w.MappingContext.Exists THEN [w |-> w, ret |-> FALSE]
    ELSE IF ~w.LocalPlayerReady THEN [w |-> w, ret |-> FALSE]
    ELSE [w |-> [w EXCEPT !.SubsystemHasContext = TRUE], ret |-> TRUE]

SetPlayerController(w, InPlayerController) ==
    LET w1 == [w EXCEPT !.PlayerController = InPlayerController,
                        !.OwningController = InPlayerController]
    IN  IF w1.MappingContext.Exists /\ w1.PlayerController # NoController
           /\ IsLocalController(w1.PlayerController)
        THEN ApplyMappingContextToPlayer(w1).w
        ELSE w1

\* Cast<APlayerController>
CastToPlayerController(c) == IF c \in PlayerControllers THEN c ELSE NoController

SetController(w, InController) ==
    LET w1 == [w EXCEPT !.OwningController = InController,
                        !.PlayerController = CastToPlayerController(InController)]
    IN  IF w1.MappingContext.Exists /\ w1.PlayerController # NoController
           /\ IsLocalController(w1.PlayerController)
        THEN ApplyMappingContextToPlayer(w1).w
        ELSE w1

(***************************************************************************)
(* Key mapping.                                                            *)
(***************************************************************************)
Keys == {"SpaceBar"}
InvalidKey == "None"
KeyIsValid(Key) == Key # InvalidKey

GetOrCreateAction(w, ActionName) ==
    IF HasInputAction(w, ActionName) THEN w
    ELSE CreateInputAction(w, ActionName, "Boolean")

RefreshForPlayer(w) ==
    IF w.PlayerController # NoController THEN ApplyMappingContextToPlayer(w).w ELSE w

MapKeyToAction(w, ActionName, Key) ==
    IF ~KeyIsValid(Key) THEN [w |-> w, ret |-> FALSE]
    ELSE LET w1 == GetOrCreateAction(EnsureMappingContext(w), ActionName)
             w2 == MapKey(w1, GetInputAction(w1, ActionName), Key)
         IN  [w |-> RefreshForPlayer(w2), ret |-> TRUE]

\* One of the four chord blocks of MapKeyBindingToAction: the modifier action
\* is created, and its two keys mapped, when it does not exist; the chord
\* trigger goes to the mapping of the key, which is at position `at`.
AddChord(w, flag, ModifierName, LeftKey, RightKey, at) ==
    IF ~flag THEN w
    ELSE LET w1 == IF HasInputAction(w, ModifierName) THEN w
                   ELSE LET c == CreateInputAction(w, ModifierName, "Boolean")
                        IN  MapKey(MapKey(c, GetInputAction(c, ModifierName), LeftKey),
                                   GetInputAction(c, ModifierName), RightKey)
         IN  [w1 EXCEPT !.MappingContext.Mappings[at].Triggers =
                 Append(@, [Chord |-> GetInputAction(w1, ModifierName)])]

MapKeyBindingToAction(w, ActionName, KeyBinding) ==
    IF ~KeyIsValid(KeyBinding.Key) THEN [w |-> w, ret |-> FALSE]
    ELSE LET w1 == GetOrCreateAction(EnsureMappingContext(w), ActionName)
             w2 == MapKey(w1, GetInputAction(w1, ActionName), KeyBinding.Key)
             at == Len(w2.MappingContext.Mappings)
             w3 == AddChord(w2, KeyBinding.bShift, "ModifierShift", "LeftShift", "RightShift", at)
             w4 == AddChord(w3, KeyBinding.bCtrl, "ModifierCtrl", "LeftControl", "RightControl", at)
             w5 == AddChord(w4, KeyBinding.bAlt, "ModifierAlt", "LeftAlt", "RightAlt", at)
             w6 == AddChord(w5, KeyBinding.bCmd, "ModifierCmd", "LeftCommand", "RightCommand", at)
         IN  [w |-> RefreshForPlayer(w6), ret |-> TRUE]

\* UInputMappingContext::UnmapKey: the first mapping of the key to the action
\* is removed, the last mapping taking its place.
UnmapKey(w, Action, Key) ==
    LET Mappings == w.MappingContext.Mappings
        found == {i \in DOMAIN Mappings :
                     Mappings[i].Action = Action /\ Mappings[i].Key = Key}
    IN  IF found = {} THEN w
        ELSE LET at == CHOOSE i \in found : \A j \in found : i <= j
             IN  [w EXCEPT !.MappingContext.Mappings =
                     [i \in 1..(Len(Mappings) - 1) |->
                         IF i = at THEN Mappings[Len(Mappings)] ELSE Mappings[i]]]

UnmapKeyFromAction(w, ActionName, Key) ==
    IF ~w.MappingContext.Exists THEN [w |-> w, ret |-> FALSE]
    ELSE IF ~HasInputAction(w, ActionName) THEN [w |-> w, ret |-> FALSE]
    ELSE [w |-> RefreshForPlayer(UnmapKey(w, GetInputAction(w, ActionName), Key)),
          ret |-> TRUE]

ClearAllMappings(w) ==
    LET w1 == IF w.MappingContext.Exists THEN UnmapAll(w) ELSE w
        w2 == [w1 EXCEPT !.CreatedInputActions = <<>>]
    IN  IF w2.PlayerController # NoController /\ IsLocalController(w2.PlayerController)
           /\ w2.LocalPlayerReady
        THEN [w2 EXCEPT !.SubsystemHasContext = FALSE]
        ELSE w2

(***************************************************************************)
(* Profile application.  Floats are in hundredths.                         *)
(***************************************************************************)
One == 100
IsNearlyEqual(a, b) == a = b
Abs(x) == IF x < 0 THEN 0 - x ELSE x

(***************************************************************************)
(* Action-level modifiers.                                                 *)
(***************************************************************************)
\* How many modifiers an action may get.
MaxModifiers == 2

NoModifier == [Modifier |-> "nullptr"]

\* FS_InputModifierConfig as its constructor leaves it, with a type.
ModifierConfig(ModifierType) ==
    [ModifierType |-> ModifierType, bEnabled |-> TRUE, DeadZoneLower |-> 20,
     DeadZoneUpper |-> One, DeadZoneType |-> "Radial", ScaleVector |-> <<One, One, One>>,
     bNegateX |-> FALSE, bNegateY |-> FALSE, bNegateZ |-> FALSE]

CreateUInputModifier(Config) ==
    IF ~Config.bEnabled THEN NoModifier
    ELSE CASE Config.ModifierType = "DeadZone" ->
                [Modifier |-> "DeadZone", LowerThreshold |-> Config.DeadZoneLower,
                 UpperThreshold |-> Config.DeadZoneUpper, Type |-> Config.DeadZoneType]
           [] Config.ModifierType = "Scale" ->
                [Modifier |-> "Scalar", Scalar |-> Config.ScaleVector]
           [] Config.ModifierType = "Negate" ->
                [Modifier |-> "Negate", bX |-> Config.bNegateX, bY |-> Config.bNegateY,
                 bZ |-> Config.bNegateZ]
           [] OTHER -> NoModifier

AddModifierToAction(w, ActionName, Config) ==
    IF ~HasInputAction(w, ActionName) THEN [w |-> w, ret |-> FALSE]
    ELSE IF CreateUInputModifier(Config) = NoModifier THEN [w |-> w, ret |-> FALSE]
    ELSE [w |-> [w EXCEPT !.CreatedInputActions[ActionName].Modifiers =
                    Append(@, CreateUInputModifier(Config))],
          ret |-> TRUE]

\* Removes nothing and reports failure, whether the action is there or not.
RemoveModifierFromAction(w, ActionName, ModifierType) == [w |-> w, ret |-> FALSE]

SetActionSensitivityPerAxis(w, ActionName, Sensitivity) ==
    AddModifierToAction(RemoveModifierFromAction(w, ActionName, "Scale").w, ActionName,
                        [ModifierConfig("Scale") EXCEPT !.ScaleVector = Sensitivity])

SetActionDeadZone(w, ActionName, LowerThreshold, UpperThreshold) ==
    AddModifierToAction(RemoveModifierFromAction(w, ActionName, "DeadZone").w, ActionName,
                        [ModifierConfig("DeadZone") EXCEPT !.DeadZoneLower = LowerThreshold,
                                                           !.DeadZoneUpper = UpperThreshold])

SetActionSensitivity(w, ActionName, Sensitivity) ==
    SetActionSensitivityPerAxis(w, ActionName, <<Sensitivity, Sensitivity, Sensitivity>>)

SetActionInvertY(w, ActionName, bInvert) ==
    IF bInvert
    THEN AddModifierToAction(w, ActionName,
                             [ModifierConfig("Negate") EXCEPT !.bNegateX = FALSE,
                                                              !.bNegateY = TRUE,
                                                              !.bNegateZ = FALSE])
    ELSE RemoveModifierFromAction(w, ActionName, "Negate")

RECURSIVE MapKeyBindings(_, _, _)
MapKeyBindings(w, Action, KeyBindings) ==
    IF KeyBindings = <<>> THEN w
    ELSE MapKeyBindings(IF KeyIsValid(Head(KeyBindings).Key)
                        THEN MapKey(w, Action, Head(KeyBindings).Key)
                        ELSE w,
                        Action, Tail(KeyBindings))

\* A variant that applies a disabled binding like an enabled one.
ApplyDisabledBindingToo(w, ActionBinding) ==
    LET w1 == CreateInputAction(EnsureMappingContext(w),
                                ActionBinding.InputActionName, "Boolean")
    IN  [w |-> MapKeyBindings(w1, GetInputAction(w1, ActionBinding.InputActionName),
                              ActionBinding.KeyBindings),
         ret |-> TRUE]

ApplyActionBinding(w, ActionBinding) ==
    IF ~ActionBinding.bEnabled THEN [w |-> w, ret |-> FALSE]
    ELSE LET w1 == CreateInputAction(EnsureMappingContext(w),
                                     ActionBinding.InputActionName, "Boolean")
         IN  [w |-> MapKeyBindings(w1, GetInputAction(w1, ActionBinding.InputActionName),
                                   ActionBinding.KeyBindings),
              ret |-> TRUE]

ApplyAxisModifiers(w, ActionName, AxisBinding) ==
    LET deadZone == IF AxisBinding.DeadZone > 0
                    THEN <<[Modifier |-> "DeadZone", LowerThreshold |-> AxisBinding.DeadZone,
                            UpperThreshold |-> One, Type |-> "Radial"]>>
                    ELSE <<>>
        scale == IF ~IsNearlyEqual(AxisBinding.Sensitivity, One)
                 THEN <<[Modifier |-> "Scalar", Scalar |-> AxisBinding.Sensitivity]>>
                 ELSE <<>>
        negate == IF AxisBinding.bInvert THEN <<[Modifier |-> "Negate"]>> ELSE <<>>
    IN  [w EXCEPT !.CreatedInputActions[ActionName].Modifiers = deadZone \o scale \o negate]

\* The modifiers one key of an axis binding gets on its mapping.
AxisKeyModifiers(AxisBinding, KeyBinding) ==
    (IF KeyBinding.bSwizzleYXZ THEN <<[Modifier |-> "SwizzleAxis", Order |-> "YXZ"]>> ELSE <<>>)
    \o (IF KeyBinding.Scale < 0 THEN <<[Modifier |-> "Negate"]>> ELSE <<>>)
    \o (IF ~IsNearlyEqual(Abs(KeyBinding.Scale), One)
        THEN <<[Modifier |-> "Scalar", Scalar |-> Abs(KeyBinding.Scale)]>> ELSE <<>>)
    \o (IF AxisBinding.bInvert THEN <<[Modifier |-> "Negate"]>> ELSE <<>>)

RECURSIVE MapAxisKeyBindings(_, _, _, _)
MapAxisKeyBindings(w, Action, AxisBinding, KeyBindings) ==
    IF KeyBindings = <<>> THEN w
    ELSE MapAxisKeyBindings(
            IF KeyIsValid(Head(KeyBindings).Key)
            THEN LET w1 == MapKey(w, Action, Head(KeyBindings).Key)
                 IN  [w1 EXCEPT !.MappingContext.Mappings[Len(w1.MappingContext.Mappings)].Modifiers =
                         AxisKeyModifiers(AxisBinding, Head(KeyBindings))]
            ELSE w,
            Action, AxisBinding, Tail(KeyBindings))

ApplyAxisBinding(w, AxisBinding) ==
    IF ~AxisBinding.bEnabled THEN [w |-> w, ret |-> FALSE]
    ELSE LET w1 == CreateInputAction(EnsureMappingContext(w),
                                     AxisBinding.InputAxisName, AxisBinding.ValueType)
             w2 == ApplyAxisModifiers(w1, AxisBinding.InputAxisName, AxisBinding)
         IN  [w |-> MapAxisKeyBindings(w2, GetInputAction(w2, AxisBinding.InputAxisName),
                                       AxisBinding, AxisBinding.AxisBindings),
              ret |-> TRUE]

RECURSIVE ApplyActionBindings(_, _)
ApplyActionBindings(w, ActionBindings) ==
    IF ActionBindings = <<>> THEN w
    ELSE ApplyActionBindings(ApplyActionBinding(w, Head(ActionBindings)).w,
                             Tail(ActionBindings))

RECURSIVE ApplyAxisBindings(_, _)
ApplyAxisBindings(w, AxisBindings) ==
    IF AxisBindings = <<>> THEN w
    ELSE ApplyAxisBindings(ApplyAxisBinding(w, Head(AxisBindings)).w, Tail(AxisBindings))

ApplyProfile(w, Profile) ==
    LET w1 == [UnmapAll(EnsureMappingContext(w)) EXCEPT !.CreatedInputActions = <<>>]
        w2 == ApplyAxisBindings(ApplyActionBindings(w1, Profile.ActionBindings),
                                Profile.AxisBindings)
        bShouldApplyLocalPlayerContext ==
            w2.PlayerController # NoController /\ IsLocalController(w2.PlayerController)
        applied == ApplyMappingContextToPlayer(w2)
    IN  IF bShouldApplyLocalPlayerContext /\ ~applied.ret
        THEN [w |-> applied.w, ret |-> FALSE]
        ELSE [w |-> BindAllActionEvents(IF bShouldApplyLocalPlayerContext
                                        THEN applied.w ELSE w2),
              ret |-> TRUE]

(***************************************************************************)
(* Async listener management of the engine, and its event handlers.  What  *)
(* a handler does is the sequence of its broadcasts.                       *)
(***************************************************************************)
RegisterAsyncListener(w, Listener) == w

UnregisterAsyncListener(w, Listener) == w

\* The listeners NotifyAsyncListeners calls HandleInputEvent of.
NotifyAsyncListeners(w, ActionName, TriggerEvent, Value) == {}

Broadcast(Dispatcher, ActionName, Value) ==
    [Dispatcher |-> Dispatcher, ActionName |-> ActionName, Value |-> Value]

OnActionTriggeredInternal(ActionName, Value) ==
    <<Broadcast("OnActionTriggered", ActionName, Value),
      Broadcast("OnDynamicInputAction", ActionName, Value)>>

OnActionStartedInternal(ActionName, Value) ==
    <<Broadcast("OnActionStarted", ActionName, Value)>>

OnActionOngoingInternal(ActionName, Value) ==
    <<Broadcast("OnActionOngoing", ActionName, Value)>>

OnActionCompletedInternal(ActionName, Value) ==
    <<Broadcast("OnActionCompleted", ActionName, Value)>>

OnActionCanceledInternal(ActionName, Value) ==
    <<Broadcast("OnActionCanceled", ActionName, Value)>>

\* UI injection: the engine afterwards and the broadcasts of the call.
CanInject(w) == w.PlayerController # NoController /\ IsLocalController(w.PlayerController)

InjectActionStarted(w, ActionName) ==
    IF ~CanInject(w) THEN [w |-> w, out |-> <<>>]
    ELSE [w |-> w, out |-> <<Broadcast("OnActionStarted", ActionName, "true")>>]

\* A variant that does not look at the controller.
InjectTriggeredAnywhere(w, ActionName) ==
    [w |-> w, out |-> <<Broadcast("OnActionTriggered", ActionName, "true"),
                        Broadcast("OnDynamicInputAction", ActionName, "true")>>]

InjectActionTriggered(w, ActionName) ==
    IF ~CanInject(w) THEN [w |-> w, out |-> <<>>]
    ELSE [w |-> w, out |-> <<Broadcast("OnActionTriggered", ActionName, "true"),
                             Broadcast("OnDynamicInputAction", ActionName, "true")>>]

InjectActionCompleted(w, ActionName) ==
    IF ~CanInject(w) THEN [w |-> w, out |-> <<>>]
    ELSE [w |-> w, out |-> <<Broadcast("OnActionCompleted", ActionName, "false")>>]

InjectAxis2D(w, AxisName, Value) ==
    IF ~CanInject(w) THEN [w |-> w, out |-> <<>>]
    ELSE [w |-> w, out |-> <<Broadcast("OnActionTriggered", AxisName, Value),
                             Broadcast("OnDynamicInputAction", AxisName, Value)>>]

Invoke(Handler, ActionName, Value) ==
    CASE Handler = "OnActionTriggeredInternal" -> OnActionTriggeredInternal(ActionName, Value)
      [] Handler = "OnActionStartedInternal" -> OnActionStartedInternal(ActionName, Value)
      [] Handler = "OnActionOngoingInternal" -> OnActionOngoingInternal(ActionName, Value)
      [] Handler = "OnActionCompletedInternal" -> OnActionCompletedInternal(ActionName, Value)
      [] Handler = "OnActionCanceledInternal" -> OnActionCanceledInternal(ActionName, Value)

\* The dispatcher of the engine that belongs to a trigger event.
DispatcherOf(TriggerEvent) ==
    CASE TriggerEvent = "Triggered" -> "OnActionTriggered"
      [] TriggerEvent = "Started" -> "OnActionStarted"
      [] TriggerEvent = "Ongoing" -> "OnActionOngoing"
      [] TriggerEvent = "Completed" -> "OnActionCompleted"
      [] TriggerEvent = "Canceled" -> "OnActionCanceled"

(***************************************************************************)
(* The host's input component: an event of an action object invokes, once  *)
(* per binding, every delegate bound to that object and trigger event.     *)
(***************************************************************************)
Matching(w, Action, TriggerEvent) ==
    {b \in BagToSet(w.Subscriptions) :
        /\ b.Component = w.InputComponent
        /\ b.Action = Action
        /\ b.TriggerEvent = TriggerEvent}

RECURSIVE Repeat(_, _)
Repeat(s, n) == IF n = 0 THEN <<>> ELSE s \o Repeat(s, n - 1)

RECURSIVE InvokeAll(_, _, _)
InvokeAll(w, bindings, Value) ==
    IF bindings = <<>> THEN <<>>
    ELSE Repeat(Invoke(Head(bindings).Handler, Head(bindings).Payload, Value),
                CopiesIn(Head(bindings), w.Subscriptions))
         \o InvokeAll(w, Tail(bindings), Value)

Deliver(w, Action, TriggerEvent, Value) ==
    InvokeAll(w, SetToSeq(Matching(w, Action, TriggerEvent)), Value)

\* How many broadcasts of a dispatcher for an action a sequence holds.
Count(seq, Dispatcher, ActionName) ==
    Cardinality({i \in 1..Len(seq) :
        seq[i].Dispatcher = Dispatcher /\ seq[i].ActionName = ActionName})

(***************************************************************************)
(* UAsyncAction_WaitForInputAction.  A listener is a record of its fields  *)
(* and of its history: whether Activate and Cancel were called, how often  *)
(* its OnTriggered and OnStopped pins fired, how often HandleInputEvent    *)
(* was called and with what.  A method gives the listener afterwards and   *)
(* the sequence of its pin broadcasts.                                     *)
(***************************************************************************)
\* How many listener objects there are.
MaxListeners == 1
\* How many times a pin of a listener may fire.
MaxFires == 2

ListenerIds == 1..MaxListeners

NoListener ==
    [State |-> "None", PlayerControllerPtr |-> NoController, ActionName |-> "None",
     bOnlyTriggerOnce |-> FALSE, bIsActive |-> FALSE, bHasTriggered |-> FALSE,
     IntegrationPtr |-> FALSE, Activated |-> FALSE, Canceled |-> FALSE,
     nTriggered |-> 0, nStopped |-> 0, nNotified |-> 0, lastNotified |-> ""]

WaitForInputAction(InPlayerController, ActionName, bOnlyTriggerOnce) ==
    [NoListener EXCEPT !.State = "Alive", !.PlayerControllerPtr = InPlayerController,
                       !.ActionName = ActionName, !.bOnlyTriggerOnce = bOnlyTriggerOnce,
                       !.bIsActive = FALSE, !.bHasTriggered = FALSE]

Pin(Name, Value) == [Dispatcher |-> Name, ActionName |-> "", Value |-> Value]

\* Manager->GetIntegrationForPlayer(PC) gives the player's engine, whose
\* RegisterAsyncListener is then called.
RegisterWithIntegration(L) ==
    IF L.PlayerControllerPtr = NoController THEN L
    ELSE [L EXCEPT !.IntegrationPtr = TRUE, !.bIsActive = TRUE]

UnregisterFromIntegration(L) ==
    [L EXCEPT !.bIsActive = FALSE, !.IntegrationPtr = FALSE]

Activate(L) ==
    [(IF L.bIsActive THEN L ELSE RegisterWithIntegration(L)) EXCEPT !.Activated = TRUE]

Cancel(L) ==
    IF ~L.bIsActive THEN [l |-> L, out |-> <<>>]
    ELSE [l |-> [UnregisterFromIntegration(L) EXCEPT !.nStopped = @ + 1,
                                                     !.Canceled = TRUE],
          out |-> <<Pin("OnStopped", "")>>]

BeginDestroy(L) ==
    [(IF L.bIsActive THEN UnregisterFromIntegration(L) ELSE L) EXCEPT !.State = "Destroyed"]

PinOf(TriggerEvent) ==
    CASE TriggerEvent = "Triggered" -> "OnTriggered"
      [] TriggerEvent = "Started" -> "OnStarted"
      [] TriggerEvent = "Ongoing" -> "OnOngoing"
      [] TriggerEvent = "Completed" -> "OnCompleted"
      [] TriggerEvent = "Canceled" -> "OnCanceled"

EventPins == {PinOf(k) : k \in TriggerEvents}

\* `cancels`: a callback bound to the pin that fires calls Cancel().
HandleInputEvent(L, InActionName, TriggerEvent, Value, cancels) ==
    LET L0 == [L EXCEPT !.nNotified = @ + 1,
                        !.lastNotified = TriggerEvent]
    IN  IF InActionName # L0.ActionName THEN [l |-> L0, out |-> <<>>]
        ELSE IF L0.bOnlyTriggerOnce /\ L0.bHasTriggered THEN [l |-> L0, out |-> <<>>]
        ELSE LET fired == <<Pin(PinOf(TriggerEvent), Value)>>
                 c1 == IF cancels THEN Cancel(L0) ELSE [l |-> L0, out |-> <<>>]
             IN  IF TriggerEvent = "Triggered"
                 THEN LET L2 == [c1.l EXCEPT !.bHasTriggered = TRUE, !.nTriggered = @ + 1]
                          c2 == IF L2.bOnlyTriggerOnce THEN Cancel(L2)
                                ELSE [l |-> L2, out |-> <<>>]
                      IN  [l |-> c2.l, out |-> fired \o c1.out \o c2.out]
                 ELSE [l |-> c1.l, out |-> fired \o c1.out]

(***************************************************************************)
(* Inputs of the calls.                                                    *)
(***************************************************************************)
\* The structs as their constructors leave them.  A name is the text it
\* prints as, NAME_None being "None"; FDateTime::Now() is "Now".
FS_InputActionBinding ==
    [InputActionName |-> "None", DisplayName |-> "", Category |-> "General",
     Description |-> "", KeyBindings |-> <<>>, Priority |-> One, bEnabled |-> TRUE]

FS_InputAxisBinding ==
    [InputAxisName |-> "None", DisplayName |-> "", Category |-> "General",
     Description |-> "", AxisBindings |-> <<>>, ValueType |-> "Axis1D", DeadZone |-> 20,
     Sensitivity |-> One, Priority |-> One, bEnabled |-> TRUE, bInvert |-> FALSE]

FS_InputModifier ==
    [ModifierType |-> "DeadZone", DeadZoneValue |-> 20, ScaleValue |-> One,
     ClampRange |-> <<0 - One, One>>, bInvert |-> FALSE, bEnabled |-> TRUE]

\* bActiveActionToggles is the member CPP_InputProfileStorage.cpp reads and
\* writes; FS_InputProfile.h declares ToggleActionStates.
FS_InputProfile ==
    [ProfileName |-> "None", ProfileDescription |-> "", ActionBindings |-> <<>>,
     AxisBindings |-> <<>>, Modifiers |-> <<>>, ToggleModeActions |-> <<>>,
     bActiveActionToggles |-> <<>>, ToggleActionStates |-> <<>>, Timestamp |-> "Now",
     Version |-> 4, CreatedBy |-> "", bIsDefault |-> FALSE, bIsCompetitive |-> FALSE]

KeyBinding(Key, bShift) ==
    [Key |-> Key, Value |-> One, bShift |-> bShift, bCtrl |-> FALSE, bAlt |-> FALSE,
     bCmd |-> FALSE]

KeyBindings == {KeyBinding(k, s) : k \in Keys \cup {InvalidKey}, s \in BOOLEAN}

ActionBinding(InputActionName, bEnabled) ==
    [FS_InputActionBinding EXCEPT !.InputActionName = InputActionName,
                                  !.bEnabled = bEnabled,
                                  !.KeyBindings = <<KeyBinding("SpaceBar", FALSE)>>]

AxisBinding(InputAxisName, bInvert) ==
    [FS_InputAxisBinding EXCEPT
        !.InputAxisName = InputAxisName, !.bInvert = bInvert,
        !.AxisBindings = <<[Key |-> "SpaceBar", Scale |-> 0 - One, bSwizzleYXZ |-> FALSE]>>]

Profiles ==
    {[ActionBindings |-> <<>>, AxisBindings |-> <<>>],
     [ActionBindings |-> <<ActionBinding(AllNames[1], TRUE)>>, AxisBindings |-> <<>>],
     [ActionBindings |-> <<ActionBinding(AllNames[1], TRUE), ActionBinding(AllNames[2], TRUE)>>,
      AxisBindings |-> <<>>],
     [ActionBindings |-> <<ActionBinding(AllNames[1], FALSE)>>,
      AxisBindings |-> <<AxisBinding(AllNames[2], TRUE)>>]}

\* The orders in which a set can yield its elements.
Orders(S) ==
    {s \in [1..Cardinality(S) -> S] : \A i, j \in 1..Cardinality(S) : s[i] = s[j] => i = j}

\* The model's bounds on what a call leaves behind.
WithinBounds(w) ==
    /\ Len(w.MappingContext.Mappings) <= MaxMappings
    /\ \A b \in BagToSet(w.Subscriptions) : CopiesIn(b, w.Subscriptions) <= MaxSubscriptions

Rebuilt(w) == w.BoundEnhancedInputComponent # BoundEnhancedInputComponent

(***************************************************************************)
(* UCPP_InputBindingManager: the per-player records, the template library  *)
(* and the profile files.                                                  *)
(***************************************************************************)
\* How many engines RegisterPlayer may create in a behaviour.
MaxIntegrations == 2
\* How many entries an array of bindings of a profile may hold.
MaxBindings == 2
\* How many keys one action binding may hold.
MaxKeys == 2

NAME_None == "None"
TemplateNames == {"Default", "Custom"}
ManagerKeys == {"SpaceBar", "Enter"}
NoIntegration == 0

\* FS_InputProfile()
EmptyProfile == FS_InputProfile

\* FName(*FString::Printf(TEXT("Player_%s"), *PlayerController->GetName()))
PlayerProfileName(c) == IF c = "LocalPC" THEN "Player_LocalPC" ELSE "Player_RemotePC"

\* A newly constructed engine.
NewEngine ==
    [PlayerController |-> NoController,
     OwningController |-> NoController,
     MappingContext |-> NoMappingContext,
     CreatedInputActions |-> <<>>,
     BoundEnhancedInputComponent |-> NoComponent,
     BoundActions |-> {},
     PendingBindActions |-> {},
     AsyncListeners |-> <<>>,
     InputActionObjects |-> {},
     Generation |-> 0,
     InputComponent |-> NoComponent,
     LocalPlayerReady |-> FALSE,
     Subscriptions |-> EmptyBag,
     SubsystemHasContext |-> FALSE]

\* The manager's members, the files, the controllers' lives, and the host
\* state the players' engines read.
Manager ==
    [PlayerDataMap |-> PlayerDataMap,
     ProfileTemplates |-> ProfileTemplates,
     SavedProfiles |-> SavedProfiles,
     Integrations |-> Integrations,
     ControllerLife |-> ControllerLife,
     LocalPlayerReady |-> LocalPlayerReady,
     InputComponent |-> InputComponent]

InstallManager(m) ==
    /\ PlayerDataMap' = m.PlayerDataMap
    /\ ProfileTemplates' = m.ProfileTemplates
    /\ SavedProfiles' = m.SavedProfiles
    /\ Integrations' = m.Integrations
    /\ ControllerLife' = m.ControllerLife

\* f without the key k; f with k mapped to v.
RemoveKey(f, k) == [x \in DOMAIN f \ {k} |-> f[x]]
AddKey(f, k, v) == [x \in DOMAIN f \cup {k} |-> IF x = k THEN v ELSE f[x]]

\* The engine of integration i, in the host as it is now; and what is kept
\* of an engine after a call.
EngineOf(m, i) ==
    [m.Integrations[i].Engine EXCEPT !.LocalPlayerReady = m.LocalPlayerReady,
                                     !.InputComponent = m.InputComponent]
KeepEngine(m, i, w) ==
    [m EXCEPT !.Integrations[i].Engine =
        [w EXCEPT !.LocalPlayerReady = FALSE, !.InputComponent = NoComponent]]

(***************************************************************************)
(* UCPP_InputProfileStorage: a profile is written as a JSON object and     *)
(* read back field by field.                                               *)
(***************************************************************************)
\* A JSON object is a record of the fields it has.
HasField(Object, Name) == Name \in DOMAIN Object

\* GetStringField, GetNumberField and GetBoolField give the type's zero
\* where the field is missing; TryGet...Field leave the variable as it was.
GetField(Object, Name, Missing) == IF HasField(Object, Name) THEN Object[Name] ELSE Missing

\* FName(*String): the empty text is NAME_None.
ToFName(String) == IF String = "" THEN NAME_None ELSE String

\* static_cast<int32>(EInputActionValueType), and back.
ValueTypeToInt(ValueType) ==
    CASE ValueType = "Boolean" -> 0 [] ValueType = "Axis1D" -> 1
      [] ValueType = "Axis2D" -> 2 [] ValueType = "Axis3D" -> 3

IntToValueType(ValueTypeInt) ==
    CASE ValueTypeInt = 0 -> "Boolean" [] ValueTypeInt = 1 -> "Axis1D"
      [] ValueTypeInt = 2 -> "Axis2D" [] ValueTypeInt = 3 -> "Axis3D"
      [] OTHER -> ValueTypeInt

\* static_cast<int32>(EInputModifierType), and back.
ModifierTypeToInt(ModifierType) ==
    CASE ModifierType = "DeadZone" -> 0 [] ModifierType = "Scale" -> 1
      [] ModifierType = "Negate" -> 2 [] ModifierType = "Swizzle" -> 3

IntToModifierType(ModifierTypeInt) ==
    CASE ModifierTypeInt = 0 -> "DeadZone" [] ModifierTypeInt = 1 -> "Scale"
      [] ModifierTypeInt = 2 -> "Negate" [] ModifierTypeInt = 3 -> "Swizzle"
      [] OTHER -> ModifierTypeInt

SerializeProfileToJson(Profile) ==
    LET KeyObj(InKey) ==
            [Key |-> InKey.Key, Value |-> InKey.Value, bShift |-> InKey.bShift,
             bCtrl |-> InKey.bCtrl, bAlt |-> InKey.bAlt, bCmd |-> InKey.bCmd]
        ActionObj(InAction) ==
            [InputActionName |-> InAction.InputActionName,
             DisplayName |-> InAction.DisplayName,
             Category |-> InAction.Category,
             Description |-> InAction.Description,
             Priority |-> InAction.Priority,
             bEnabled |-> InAction.bEnabled,
             KeyBindings |-> [i \in 1..Len(InAction.KeyBindings) |->
                                 KeyObj(InAction.KeyBindings[i])]]
        AxisKeyObj(AxisKey) ==
            [Key |-> AxisKey.Key, Scale |-> AxisKey.Scale, bSwizzleYXZ |-> AxisKey.bSwizzleYXZ]
        AxisObj(InAxis) ==
            [InputAxisName |-> InAxis.InputAxisName,
             DisplayName |-> InAxis.DisplayName,
             Category |-> InAxis.Category,
             Description |-> InAxis.Description,
             ValueType |-> ValueTypeToInt(InAxis.ValueType),
             DeadZone |-> InAxis.DeadZone, Sensitivity |-> InAxis.Sensitivity,
             Priority |-> InAxis.Priority,
             bInvert |-> InAxis.bInvert, bEnabled |-> InAxis.bEnabled,
             AxisBindings |-> [i \in 1..Len(InAxis.AxisBindings) |->
                                  AxisKeyObj(InAxis.AxisBindings[i])]]
        ModObj(Modifier) ==
            [ModifierType |-> ModifierTypeToInt(Modifier.ModifierType),
             DeadZoneValue |-> Modifier.DeadZoneValue, ScaleValue |-> Modifier.ScaleValue,
             bEnabled |-> Modifier.bEnabled]
    IN  [Json |-> [ProfileName |-> Profile.ProfileName,
                   ProfileDescription |-> Profile.ProfileDescription,
                   CreatedBy |-> Profile.CreatedBy,
                   Version |-> Profile.Version,
                   bIsDefault |-> Profile.bIsDefault,
                   bIsCompetitive |-> Profile.bIsCompetitive,
                   ToggleModeActions |-> Profile.ToggleModeActions,
                   bActiveActionToggles |-> Profile.bActiveActionToggles,
                   ActionBindings |-> [i \in 1..Len(Profile.ActionBindings) |->
                                          ActionObj(Profile.ActionBindings[i])],
                   AxisBindings |-> [i \in 1..Len(Profile.AxisBindings) |->
                                        AxisObj(Profile.AxisBindings[i])],
                   Modifiers |-> [i \in 1..Len(Profile.Modifiers) |->
                                     ModObj(Profile.Modifiers[i])]]]

\* ret: whether the text was parsed; Profile: OutProfile after the call.
DeserializeProfileFromJson(JsonString, OutProfile) ==
    IF ~HasField(JsonString, "Json") THEN [ret |-> FALSE, Profile |-> OutProfile]
    ELSE
    LET JsonObject == JsonString.Json
        ReadKeyObj(o) ==
            [Key |-> ToFName(GetField(o, "Key", "")),
             Value |-> GetField(o, "Value", One),
             bShift |-> GetField(o, "bShift", FALSE),
             bCtrl |-> GetField(o, "bCtrl", FALSE),
             bAlt |-> GetField(o, "bAlt", FALSE),
             bCmd |-> GetField(o, "bCmd", FALSE)]
        ReadActionObj(o) ==
            [InputActionName |-> ToFName(GetField(o, "InputActionName", "")),
             DisplayName |-> GetField(o, "DisplayName", ""),
             Category |-> ToFName(GetField(o, "Category", "")),
             Description |-> GetField(o, "Description", ""),
             Priority |-> GetField(o, "Priority", 0),
             bEnabled |-> GetField(o, "bEnabled", FALSE),
             KeyBindings |->
                LET a == GetField(o, "KeyBindings", <<>>)
                IN  [i \in 1..Len(a) |-> ReadKeyObj(a[i])]]
        ReadAxisKeyObj(o) ==
            [Key |-> ToFName(GetField(o, "Key", "")),
             Scale |-> GetField(o, "Scale", One),
             bSwizzleYXZ |-> GetField(o, "bSwizzleYXZ", FALSE)]
        ReadAxisObj(o) ==
            [InputAxisName |-> ToFName(GetField(o, "InputAxisName", "")),
             Category |-> ToFName(GetField(o, "Category", "")),
             DisplayName |-> GetField(o, "DisplayName", FS_InputAxisBinding.DisplayName),
             Description |-> GetField(o, "Description", FS_InputAxisBinding.Description),
             ValueType |-> IF HasField(o, "ValueType") THEN IntToValueType(o.ValueType)
                           ELSE FS_InputAxisBinding.ValueType,
             DeadZone |-> GetField(o, "DeadZone", 0),
             Sensitivity |-> GetField(o, "Sensitivity", 0),
             Priority |-> GetField(o, "Priority", FS_InputAxisBinding.Priority),
             bInvert |-> GetField(o, "bInvert", FALSE),
             bEnabled |-> GetField(o, "bEnabled", FALSE),
             AxisBindings |->
                LET a == GetField(o, "AxisBindings", <<>>)
                IN  [i \in 1..Len(a) |-> ReadAxisKeyObj(a[i])]]
        ReadModObj(o) ==
            [FS_InputModifier EXCEPT
                !.ModifierType = IntToModifierType(GetField(o, "ModifierType", 0)),
                !.DeadZoneValue = GetField(o, "DeadZoneValue", 0),
                !.ScaleValue = GetField(o, "ScaleValue", 0),
                !.bEnabled = GetField(o, "bEnabled", FALSE)]
        ToggleModeActionsArray == GetField(JsonObject, "ToggleModeActions", <<>>)
        ActiveActionTogglesArray == GetField(JsonObject, "bActiveActionToggles", <<>>)
        ActionBindingsArray == GetField(JsonObject, "ActionBindings", <<>>)
        AxisBindingsArray == GetField(JsonObject, "AxisBindings", <<>>)
        ModifiersArray == GetField(JsonObject, "Modifiers", <<>>)
    IN  [ret |-> TRUE,
         Profile |->
            [OutProfile EXCEPT
                !.ProfileName = ToFName(GetField(JsonObject, "ProfileName", "")),
                !.ProfileDescription = GetField(JsonObject, "ProfileDescription", ""),
                !.CreatedBy = GetField(JsonObject, "CreatedBy", ""),
                !.Version = GetField(JsonObject, "Version", 1),
                !.bIsDefault = GetField(JsonObject, "bIsDefault", OutProfile.bIsDefault),
                !.bIsCompetitive =
                    GetField(JsonObject, "bIsCompetitive", OutProfile.bIsCompetitive),
                !.ToggleModeActions =
                    [i \in 1..Len(ToggleModeActionsArray) |->
                        ToFName(ToggleModeActionsArray[i])],
                !.bActiveActionToggles =
                    [i \in 1..Len(ActiveActionTogglesArray) |->
                        ToFName(ActiveActionTogglesArray[i])],
                !.ActionBindings =
                    [i \in 1..Len(ActionBindingsArray) |-> ReadActionObj(ActionBindingsArray[i])],
                !.AxisBindings =
                    [i \in 1..Len(AxisBindingsArray) |-> ReadAxisObj(AxisBindingsArray[i])],
                !.Modifiers =
                    [i \in 1..Len(ModifiersArray) |-> ReadModObj(ModifiersArray[i])]]]

\* The file is named after Profile.ProfileName.
StorageSaveProfile(m, Profile) ==
    [m EXCEPT !.SavedProfiles =
        AddKey(@, Profile.ProfileName, SerializeProfileToJson(Profile))]

ProfileExists(m, ProfileName) == ProfileName \in DOMAIN m.SavedProfiles

\* ret: whether the file exists and was parsed; Profile: OutProfile after
\* the call.
StorageLoadProfile(m, ProfileName, OutProfile) ==
    IF ~ProfileExists(m, ProfileName) THEN [ret |-> FALSE, Profile |-> OutProfile]
    ELSE DeserializeProfileFromJson(m.SavedProfiles[ProfileName], OutProfile)

\* ret: whether a file was deleted.
StorageDeleteProfile(m, ProfileName) ==
    [m |-> [m EXCEPT !.SavedProfiles = RemoveKey(@, ProfileName)],
     ret |-> ProfileExists(m, ProfileName)]

(***************************************************************************)
(* Player management.                                                      *)
(***************************************************************************)
\* UObject::IsValidLowLevel of a controller: the object is still there until
\* it is collected.
IsValidLowLevel(m, c) == m.ControllerLife[c] # "Collected"

\* A record that is never taken for valid.
NeverValid(PlayerData) == FALSE

\* FS_PlayerInputData::IsValid
IsValid(PlayerData) == PlayerData.Integration # NoIntegration

RemoveFromRoot(m, i) == [m EXCEPT !.Integrations[i].bRooted = FALSE]
ConditionalBeginDestroy(m, i) == [m EXCEPT !.Integrations[i].bBeginDestroyed = TRUE]

RECURSIVE SweepLoop(_, _)
SweepLoop(m, players) ==
    IF players = <<>> THEN m
    ELSE LET PC == Head(players)
             PlayerData == m.PlayerDataMap[PC]
             m1 == IF IsValid(PlayerData) THEN RemoveFromRoot(m, PlayerData.Integration)
                   ELSE m
         IN  SweepLoop([m1 EXCEPT !.PlayerDataMap = RemoveKey(@, PC)], Tail(players))

\* A sweep that takes every record for dead.
SweepEveryPlayer(m) == SweepLoop(m, SetToSeq(DOMAIN m.PlayerDataMap))

CleanupInvalidPlayers(m) ==
    LET InvalidPlayers ==
            {c \in DOMAIN m.PlayerDataMap :
                ~IsValidLowLevel(m, c) \/ ~IsValid(m.PlayerDataMap[c])}
    IN  SweepLoop(m, SetToSeq(InvalidPlayers))

\* GetPlayerData: whether the pointer it returns is non-null, and the record
\* it then points to.
HasPlayerData(m, c) == c # NoController /\ c \in DOMAIN m.PlayerDataMap
GetPlayerData(m, c) == m.PlayerDataMap[c]

\* The record GetProfileRefForPlayer's pointer leads to, if any.
HasProfileRef(m, c) == c # NoController /\ c \in DOMAIN m.PlayerDataMap

\* ret: the integration, or none.
RegisterPlayer(m, c) ==
    IF c = NoController THEN [m |-> m, ret |-> NoIntegration]
    ELSE LET m1 == CleanupInvalidPlayers(m)
         IN  IF c \in DOMAIN m1.PlayerDataMap /\ IsValid(m1.PlayerDataMap[c])
             THEN [m |-> m1, ret |-> m1.PlayerDataMap[c].Integration]
             ELSE LET NewIntegration == Len(m1.Integrations) + 1
                      PlayerData ==
                          [Integration |-> NewIntegration,
                           ActiveProfile |->
                               [EmptyProfile EXCEPT !.ProfileName = PlayerProfileName(c)],
                           LoadedTemplateName |-> NAME_None]
                  IN  [m |-> [m1 EXCEPT
                                !.Integrations =
                                    Append(@, [Engine |-> SetPlayerController(NewEngine, c),
                                               bRooted |-> TRUE,
                                               bBeginDestroyed |-> FALSE]),
                                !.PlayerDataMap = AddKey(@, c, PlayerData)],
                       ret |-> NewIntegration]

UnregisterPlayer(m, c) ==
    IF c = NoController \/ c \notin DOMAIN m.PlayerDataMap THEN m
    ELSE LET i == m.PlayerDataMap[c].Integration
             m1 == IF i # NoIntegration
                   THEN ConditionalBeginDestroy(
                            RemoveFromRoot(
                                KeepEngine(m, i, ClearAllMappings(EngineOf(m, i))), i), i)
                   ELSE m
         IN  [m1 EXCEPT !.PlayerDataMap = RemoveKey(@, c)]

GetIntegrationForPlayer(m, c) ==
    IF c = NoController THEN [m |-> m, ret |-> NoIntegration]
    ELSE LET m1 == CleanupInvalidPlayers(m)
         IN  IF c \in DOMAIN m1.PlayerDataMap /\ IsValid(m1.PlayerDataMap[c])
             THEN [m |-> m1, ret |-> m1.PlayerDataMap[c].Integration]
             ELSE RegisterPlayer(m1, c)

GetProfileForPlayer(m, c) ==
    IF c = NoController THEN EmptyProfile
    ELSE IF c \in DOMAIN m.PlayerDataMap THEN m.PlayerDataMap[c].ActiveProfile
    ELSE EmptyProfile

HasPlayerRegistered(m, c) ==
    IF c = NoController THEN FALSE
    ELSE IF c \in DOMAIN m.PlayerDataMap THEN IsValid(m.PlayerDataMap[c])
    ELSE FALSE

GetRegisteredPlayers(m) ==
    {c \in DOMAIN m.PlayerDataMap : IsValidLowLevel(m, c) /\ IsValid(m.PlayerDataMap[c])}

GetRegisteredPlayerCount(m) == Cardinality(GetRegisteredPlayers(m))

GetPlayerLoadedTemplateName(m, c) ==
    IF HasPlayerData(m, c) THEN GetPlayerData(m, c).LoadedTemplateName
    ELSE NAME_None

(***************************************************************************)
(* The template library.                                                   *)
(***************************************************************************)
\* A load that puts a newly constructed template in the library where the
\* file gives none.
LoadOrCreateTemplate(m, TemplateName) ==
    LET loaded == StorageLoadProfile(m, TemplateName, EmptyProfile)
    IN  [m |-> [m EXCEPT !.ProfileTemplates = AddKey(@, TemplateName, loaded.Profile)],
         ret |-> loaded.ret]

LoadProfileTemplate(m, TemplateName) ==
    LET loaded == StorageLoadProfile(m, TemplateName, EmptyProfile)
    IN  IF loaded.ret
        THEN [m |-> [m EXCEPT !.ProfileTemplates = AddKey(@, TemplateName, loaded.Profile)],
              ret |-> TRUE]
        ELSE [m |-> m, ret |-> FALSE]

\* Writing the file does not fail in the model.
SaveProfileTemplate(m, TemplateName, Profile) ==
    LET TemplateProfile == [Profile EXCEPT !.ProfileName = TemplateName]
        m1 == StorageSaveProfile(m, TemplateProfile)
    IN  [m |-> [m1 EXCEPT !.ProfileTemplates = AddKey(@, TemplateName, TemplateProfile)],
         ret |-> TRUE]

DeleteProfileTemplate(m, TemplateName) ==
    StorageDeleteProfile(
        [m EXCEPT !.ProfileTemplates =
            IF TemplateName \in DOMAIN @ THEN RemoveKey(@, TemplateName) ELSE @],
        TemplateName)

HasTemplate(m, TemplateName) == TemplateName \in DOMAIN m.ProfileTemplates
GetTemplateCount(m) == Cardinality(DOMAIN m.ProfileTemplates)

\* A lookup that answers with an empty profile where there is no template.
GetTemplateOrEmpty(m, TemplateName) ==
    IF TemplateName \in DOMAIN m.ProfileTemplates
    THEN [ret |-> TRUE, Profile |-> m.ProfileTemplates[TemplateName]]
    ELSE [ret |-> TRUE, Profile |-> StorageLoadProfile(m, TemplateName, EmptyProfile).Profile]

\* ret: whether the template was found; Profile: OutProfile.
GetTemplate(m, TemplateName) ==
    IF TemplateName \in DOMAIN m.ProfileTemplates
    THEN [ret |-> TRUE, Profile |-> m.ProfileTemplates[TemplateName]]
    ELSE StorageLoadProfile(m, TemplateName, EmptyProfile)

\* A comparison that looks at the action bindings only.
ComparesActionCountOnly(m, c) ==
    /\ c # NoController
    /\ c \in DOMAIN m.PlayerDataMap
    /\ LET PlayerData == m.PlayerDataMap[c]
           OriginalTemplate == GetTemplate(m, PlayerData.LoadedTemplateName)
       IN  \/ PlayerData.LoadedTemplateName = NAME_None
           \/ /\ OriginalTemplate.ret
              /\ Len(PlayerData.ActiveProfile.ActionBindings)
                     # Len(OriginalTemplate.Profile.ActionBindings)

HasPlayerModifiedProfile(m, c) ==
    IF ~HasPlayerData(m, c) THEN FALSE
    ELSE LET PlayerData == GetPlayerData(m, c)
             OriginalTemplate == GetTemplate(m, PlayerData.LoadedTemplateName)
         IN  IF PlayerData.LoadedTemplateName = NAME_None THEN TRUE
             ELSE OriginalTemplate.ret
                  /\ (\/ Len(PlayerData.ActiveProfile.ActionBindings)
                            # Len(OriginalTemplate.Profile.ActionBindings)
                      \/ Len(PlayerData.ActiveProfile.AxisBindings)
                            # Len(OriginalTemplate.Profile.AxisBindings))

(***************************************************************************)
(* Per-player profile operations.                                          *)
(***************************************************************************)
ApplyPlayerProfileToEnhancedInput(m, c) ==
    IF ~HasPlayerData(m, c) \/ ~IsValid(GetPlayerData(m, c))
    THEN [m |-> m, ret |-> FALSE]
    ELSE LET PlayerData == GetPlayerData(m, c)
             applied == ApplyProfile(EngineOf(m, PlayerData.Integration),
                                     PlayerData.ActiveProfile)
         IN  [m |-> KeepEngine(m, PlayerData.Integration, applied.w), ret |-> applied.ret]

\* A copy through which the template is renamed as well.
CopyTemplateByReference(m, c, TemplateName, Profile) ==
    [m EXCEPT !.PlayerDataMap[c].ActiveProfile =
                  [Profile EXCEPT !.ProfileName = PlayerProfileName(c)],
              !.PlayerDataMap[c].LoadedTemplateName = TemplateName,
              !.ProfileTemplates =
                  AddKey(@, TemplateName, [Profile EXCEPT !.ProfileName = PlayerProfileName(c)])]

\* The player's profile becomes Profile, loaded from TemplateName.
CopyTemplateToPlayer(m, c, TemplateName, Profile) ==
    [m EXCEPT !.PlayerDataMap[c].ActiveProfile =
                  [Profile EXCEPT !.ProfileName = PlayerProfileName(c)],
              !.PlayerDataMap[c].LoadedTemplateName = TemplateName]

ApplyTemplateToPlayer(m, c, TemplateName) ==
    IF c = NoController THEN [m |-> m, ret |-> FALSE]
    ELSE LET m1 == GetIntegrationForPlayer(m, c).m
             found == GetTemplate(m1, TemplateName)
             loaded == LoadProfileTemplate(m1, TemplateName)
         IN  IF ~HasPlayerData(m1, c) THEN [m |-> m1, ret |-> FALSE]
             ELSE IF found.ret
             THEN ApplyPlayerProfileToEnhancedInput(
                      CopyTemplateToPlayer(m1, c, TemplateName, found.Profile), c)
             ELSE IF ~loaded.ret THEN [m |-> m1, ret |-> FALSE]
             ELSE ApplyPlayerProfileToEnhancedInput(
                      CopyTemplateToPlayer(loaded.m, c, TemplateName,
                                           loaded.m.ProfileTemplates[TemplateName]), c)

(***************************************************************************)
(* Per-player binding operations.  Each finds the player's profile through *)
(* GetProfileRefForPlayer and changes it in place.                         *)
(***************************************************************************)
NotFound == 0

\* TArray::FindByPredicate on the name: the first index, or NotFound.
FindByPredicate(names, Name) ==
    IF \E i \in 1..Len(names) : names[i] = Name
    THEN CHOOSE i \in 1..Len(names) :
             names[i] = Name /\ \A j \in 1..(i - 1) : names[j] # Name
    ELSE NotFound

\* TArray::FindLastByPredicate on the name.
FindLastByPredicate(names, Name) ==
    IF \E i \in 1..Len(names) : names[i] = Name
    THEN CHOOSE i \in 1..Len(names) :
             names[i] = Name /\ \A j \in (i + 1)..Len(names) : names[j] # Name
    ELSE NotFound

ActionNamesOf(Profile) ==
    [i \in 1..Len(Profile.ActionBindings) |-> Profile.ActionBindings[i].InputActionName]
AxisNamesOf(Profile) ==
    [i \in 1..Len(Profile.AxisBindings) |-> Profile.AxisBindings[i].InputAxisName]

FindAction(Profile, ActionName) == FindByPredicate(ActionNamesOf(Profile), ActionName)
FindAxis(Profile, AxisName) == FindByPredicate(AxisNamesOf(Profile), AxisName)

\* TArray::RemoveAll, RemoveAt
RemoveAll(Array, Matches(_)) ==
    LET Kept(x) == ~Matches(x) IN SelectSeq(Array, Kept)

RemoveAt(Array, Index) ==
    [i \in 1..(Len(Array) - 1) |-> IF i < Index THEN Array[i] ELSE Array[i + 1]]

\* FS_KeyBinding, FS_InputActionBinding and FS_InputAxisBinding as the
\* helpers construct them: defaults but for the fields they set.
NewKeyBinding(Key) == KeyBinding(Key, FALSE)
NewActionBinding(ActionName, Key) ==
    [FS_InputActionBinding EXCEPT !.InputActionName = ActionName,
                                  !.KeyBindings = <<NewKeyBinding(Key)>>]
NewAxisBinding(AxisName) == [FS_InputAxisBinding EXCEPT !.InputAxisName = AxisName]

\* The player's profile, and the manager with that profile replaced.
ProfileOf(m, c) == m.PlayerDataMap[c].ActiveProfile
WriteEverywhere(m, c, Profile) ==
    [m EXCEPT !.PlayerDataMap = [x \in DOMAIN @ |-> [@[x] EXCEPT !.ActiveProfile = Profile]]]
WriteProfile(m, c, Profile) == [m EXCEPT !.PlayerDataMap[c].ActiveProfile = Profile]

\* The profile after SetPlayerActionBinding: Binding is stored as it is given.
StoreActionBinding(Profile, ActionName, Binding) ==
    [Profile EXCEPT !.ActionBindings =
        LET at == FindAction(Profile, ActionName)
        IN  IF at = NotFound THEN Append(@, Binding) ELSE [@ EXCEPT ![at] = Binding]]

SetPlayerActionBinding(m, c, ActionName, Binding) ==
    IF ~HasProfileRef(m, c) THEN [m |-> m, ret |-> FALSE]
    ELSE [m |-> WriteProfile(m, c, StoreActionBinding(ProfileOf(m, c), ActionName, Binding)),
          ret |-> TRUE]

RemovePlayerActionBinding(m, c, ActionName) ==
    IF ~HasProfileRef(m, c) THEN [m |-> m, ret |-> FALSE]
    ELSE LET Named(b) == b.InputActionName = ActionName
             kept == RemoveAll(ProfileOf(m, c).ActionBindings, Named)
         IN  [m |-> WriteProfile(m, c, [ProfileOf(m, c) EXCEPT !.ActionBindings = kept]),
              ret |-> Len(kept) < Len(ProfileOf(m, c).ActionBindings)]

SetPlayerAxisBinding(m, c, AxisName, Binding) ==
    IF ~HasProfileRef(m, c) THEN [m |-> m, ret |-> FALSE]
    ELSE LET at == FindAxis(ProfileOf(m, c), AxisName)
         IN  [m |-> WriteProfile(m, c,
                        [ProfileOf(m, c) EXCEPT !.AxisBindings =
                            IF at = NotFound THEN Append(@, Binding)
                            ELSE [@ EXCEPT ![at] = Binding]]),
              ret |-> TRUE]

RemovePlayerAxisBinding(m, c, AxisName) ==
    IF ~HasProfileRef(m, c) THEN [m |-> m, ret |-> FALSE]
    ELSE LET Index == FindLastByPredicate(AxisNamesOf(ProfileOf(m, c)), AxisName)
         IN  IF Index = NotFound THEN [m |-> m, ret |-> FALSE]
             ELSE [m |-> WriteProfile(m, c,
                             [ProfileOf(m, c) EXCEPT !.AxisBindings = RemoveAt(@, Index)]),
                   ret |-> TRUE]

\* A variant that hands the changed profile to the player's integration.
SetAxisSensitivityAndApply(m, c, AxisName, Sensitivity) ==
    IF ~HasProfileRef(m, c) THEN [m |-> m, ret |-> FALSE]
    ELSE LET at == FindAxis(ProfileOf(m, c), AxisName)
             m1 == WriteProfile(m, c,
                       [ProfileOf(m, c) EXCEPT !.AxisBindings =
                           IF at = NotFound
                           THEN Append(@, [NewAxisBinding(AxisName)
                                              EXCEPT !.Sensitivity = Sensitivity])
                           ELSE [@ EXCEPT ![at].Sensitivity = Sensitivity]])
         IN  [m |-> ApplyPlayerProfileToEnhancedInput(m1, c).m, ret |-> TRUE]

SetAxisSensitivity(m, c, AxisName, Sensitivity) ==
    IF ~HasProfileRef(m, c) THEN [m |-> m, ret |-> FALSE]
    ELSE LET at == FindAxis(ProfileOf(m, c), AxisName)
         IN  [m |-> WriteProfile(m, c,
                        [ProfileOf(m, c) EXCEPT !.AxisBindings =
                            IF at = NotFound
                            THEN Append(@, [NewAxisBinding(AxisName)
                                               EXCEPT !.Sensitivity = Sensitivity])
                            ELSE [@ EXCEPT ![at].Sensitivity = Sensitivity]]),
              ret |-> TRUE]

SetAxisDeadZone(m, c, AxisName, DeadZone) ==
    IF ~HasProfileRef(m, c) THEN [m |-> m, ret |-> FALSE]
    ELSE LET at == FindAxis(ProfileOf(m, c), AxisName)
         IN  [m |-> WriteProfile(m, c,
                        [ProfileOf(m, c) EXCEPT !.AxisBindings =
                            IF at = NotFound
                            THEN Append(@, [NewAxisBinding(AxisName)
                                               EXCEPT !.DeadZone = DeadZone])
                            ELSE [@ EXCEPT ![at].DeadZone = DeadZone]]),
              ret |-> TRUE]

\* OutKeys
GetKeysForAction(m, c, ActionName) ==
    IF ~HasPlayerData(m, c) THEN <<>>
    ELSE LET at == FindAction(ProfileOf(m, c), ActionName)
         IN  IF at = NotFound THEN <<>>
             ELSE [i \in 1..Len(ProfileOf(m, c).ActionBindings[at].KeyBindings) |->
                      ProfileOf(m, c).ActionBindings[at].KeyBindings[i].Key]

\* EKeys::Invalid when the player or the action is unknown or has no key.
GetPrimaryKeyForAction(m, c, ActionName) ==
    IF ~HasPlayerData(m, c) THEN InvalidKey
    ELSE LET Profile == GetPlayerData(m, c).ActiveProfile
             at == FindAction(Profile, ActionName)
         IN  IF at # NotFound /\ Len(Profile.ActionBindings[at].KeyBindings) > 0
             THEN Profile.ActionBindings[at].KeyBindings[1].Key
             ELSE InvalidKey

\* The key is written to a key list that is not there.
SetPrimaryKeyNowhere(m, c, ActionName, Key) ==
    [m |-> m, ret |-> c # NoController /\ c \in DOMAIN m.PlayerDataMap]

SetPrimaryKeyForAction(m, c, ActionName, Key) ==
    IF ~HasProfileRef(m, c) THEN [m |-> m, ret |-> FALSE]
    ELSE LET at == FindAction(ProfileOf(m, c), ActionName)
         IN  [m |-> WriteProfile(m, c,
                        [ProfileOf(m, c) EXCEPT !.ActionBindings =
                            IF at = NotFound THEN Append(@, NewActionBinding(ActionName, Key))
                            ELSE IF Len(@[at].KeyBindings) > 0
                            THEN [@ EXCEPT ![at].KeyBindings[1].Key = Key]
                            ELSE [@ EXCEPT ![at].KeyBindings = <<NewKeyBinding(Key)>>]]),
              ret |-> TRUE]

AddKeyToAction(m, c, ActionName, Key) ==
    IF ~HasProfileRef(m, c) THEN [m |-> m, ret |-> FALSE]
    ELSE LET at == FindAction(ProfileOf(m, c), ActionName)
         IN  [m |-> WriteProfile(m, c,
                        [ProfileOf(m, c) EXCEPT !.ActionBindings =
                            IF at = NotFound THEN Append(@, NewActionBinding(ActionName, Key))
                            ELSE [@ EXCEPT ![at].KeyBindings = Append(@, NewKeyBinding(Key))]]),
              ret |-> TRUE]

RemoveKeyFromAction(m, c, ActionName, Key) ==
    IF ~HasProfileRef(m, c) THEN [m |-> m, ret |-> FALSE]
    ELSE LET at == FindAction(ProfileOf(m, c), ActionName)
             HasKey(b) == b.Key = Key
         IN  IF at = NotFound THEN [m |-> m, ret |-> FALSE]
             ELSE LET before == ProfileOf(m, c).ActionBindings[at].KeyBindings
                      kept == RemoveAll(before, HasKey)
                  IN  [m |-> WriteProfile(m, c,
                                  [ProfileOf(m, c) EXCEPT
                                      !.ActionBindings[at].KeyBindings = kept]),
                       ret |-> Len(kept) < Len(before)]

ClearActionKeys(m, c, ActionName) ==
    IF ~HasProfileRef(m, c) THEN [m |-> m, ret |-> FALSE]
    ELSE LET at == FindAction(ProfileOf(m, c), ActionName)
         IN  IF at = NotFound THEN [m |-> m, ret |-> FALSE]
             ELSE [m |-> WriteProfile(m, c,
                             [ProfileOf(m, c) EXCEPT !.ActionBindings[at].KeyBindings = <<>>]),
                   ret |-> TRUE]

SwapActionBindings(m, c, ActionA, ActionB) ==
    IF ~HasProfileRef(m, c) THEN [m |-> m, ret |-> FALSE]
    ELSE LET a == FindAction(ProfileOf(m, c), ActionA)
             b == FindAction(ProfileOf(m, c), ActionB)
             Bindings == ProfileOf(m, c).ActionBindings
         IN  IF a = NotFound \/ b = NotFound THEN [m |-> m, ret |-> FALSE]
             ELSE LET TempKeys == Bindings[a].KeyBindings
                      afterA == [Bindings EXCEPT ![a].KeyBindings = Bindings[b].KeyBindings]
                      afterB == [afterA EXCEPT ![b].KeyBindings = TempKeys]
                  IN  [m |-> WriteProfile(m, c,
                                  [ProfileOf(m, c) EXCEPT !.ActionBindings = afterB]),
                       ret |-> TRUE]

\* The record of a manager call: the method, its controller, its name
\* argument (an action, an axis or a template), its binding argument, and
\* what it returned.
ManagerCall(op, c, name, binding, ret) ==
    [op |-> op, c |-> c, name |-> name, binding |-> binding, ret |-> ret]

\* The manager after Initialize with no profile files: LoadDefaultTemplate
\* finds none.
ManagerInit ==
    /\ PlayerDataMap = <<>>
    /\ ProfileTemplates = <<>>
    /\ SavedProfiles = <<>>
    /\ Integrations = <<>>
    /\ ControllerLife = [c \in PlayerControllers |-> "Alive"]
    /\ managerCall = ManagerCall("Initialize", NoController, NAME_None, "", FALSE)

(***************************************************************************)
(* Initial state: a newly constructed engine, a host with no controller.   *)
(***************************************************************************)
Init ==
    /\ PlayerController = NoController
    /\ OwningController = NoController
    /\ MappingContext = NoMappingContext
    /\ CreatedInputActions = <<>>
    /\ BoundEnhancedInputComponent = NoComponent
    /\ BoundActions = {}
    /\ PendingBindActions = {}
    /\ AsyncListeners = <<>>
    /\ InputActionObjects = {}
    /\ Generation = 0
    /\ InputComponent = NoComponent
    /\ LiveComponents = {}
    /\ Subscriptions = EmptyBag
    /\ LocalPlayerReady = FALSE
    /\ SubsystemHasContext = FALSE
    /\ Listeners = [l \in ListenerIds |-> NoListener]
    /\ lastCall = Call("Init", "", FALSE, 0, FALSE)
    /\ Emitted = <<>>
    /\ ManagerInit

(***************************************************************************)
(* Calls of the engine's public methods.                                   *)
(***************************************************************************)
\* The call is recorded, nothing is broadcast, the host is as it was.
Returned(call) ==
    /\ lastCall' = call
    /\ Emitted' = <<>>
    /\ UNCHANGED managerVars
    /\ UNCHANGED <<hostVars, Listeners>>

\* The engine is given a controller out of cs; `ic` is the input component
\* that controller has.
CallSetPlayerController(cs) ==
    \E c \in cs \cap (PlayerControllers \cup {NoController}) :
    \E ic \in IF c = OwningController THEN {InputComponent}
              ELSE IF c = NoController THEN {NoComponent}
              ELSE LiveComponents \cup {NoComponent} :
        LET w == SetPlayerController([World EXCEPT !.InputComponent = ic], c)
        IN  /\ WithinBounds(w)
            /\ Install(w)
            /\ InputComponent' = ic
            /\ lastCall' = Call("SetPlayerController", c, TRUE, 0, FALSE)
            /\ Emitted' = <<>>
            /\ UNCHANGED managerVars
            /\ UNCHANGED <<LiveComponents, LocalPlayerReady, Generation, Listeners>>

CallSetController(cs) ==
    \E c \in cs :
    \E ic \in IF c = OwningController THEN {InputComponent}
              ELSE IF c = NoController THEN {NoComponent}
              ELSE LiveComponents \cup {NoComponent} :
        LET w == SetController([World EXCEPT !.InputComponent = ic], c)
        IN  /\ WithinBounds(w)
            /\ Install(w)
            /\ InputComponent' = ic
            /\ lastCall' = Call("SetController", c, TRUE, 0, FALSE)
            /\ Emitted' = <<>>
            /\ UNCHANGED managerVars
            /\ UNCHANGED <<LiveComponents, LocalPlayerReady, Generation, Listeners>>

CallCreateInputAction(types) ==
    \E n \in ActionNames, t \in types :
        LET w == CreateInputAction(World, n, t)
        IN  /\ WithinBounds(w)
            /\ Install(w)
            /\ Returned(Call("CreateInputAction", n, TRUE, 0, FALSE))

CallMapKeyToAction ==
    \E n \in ActionNames, k \in Keys \cup {InvalidKey} :
        LET r == MapKeyToAction(World, n, k)
        IN  /\ WithinBounds(r.w)
            /\ Install(r.w)
            /\ Returned(Call("MapKeyToAction", n, r.ret, 0, FALSE))

CallUnmapKeyFromAction ==
    \E n \in ActionNames, k \in Keys \cup {InvalidKey} :
        LET r == UnmapKeyFromAction(World, n, k)
        IN  /\ WithinBounds(r.w)
            /\ Install(r.w)
            /\ Returned(Call("UnmapKeyFromAction", n, r.ret, 0, FALSE))

CallMapKeyBindingToAction ==
    \E n \in ActionNames, kb \in KeyBindings :
        LET r == MapKeyBindingToAction(World, n, kb)
        IN  /\ WithinBounds(r.w)
            /\ Install(r.w)
            /\ Returned(Call("MapKeyBindingToAction", n, r.ret, 0, FALSE))

CallClearAllMappings ==
    LET w == ClearAllMappings(World)
    IN  /\ WithinBounds(w)
        /\ Install(w)
        /\ Returned(Call("ClearAllMappings", "", TRUE, 0, FALSE))

CallApplyProfile(profiles) ==
    \E p \in profiles :
        LET r == ApplyProfile(World, p)
        IN  /\ WithinBounds(r.w)
            /\ Install(r.w)
            /\ Returned(Call("ApplyProfile", p, r.ret, 0, Rebuilt(r.w)))

\* The record and the broadcasts an injection call leaves.
Injected(op, n, out) ==
    /\ lastCall' = Call(op, n, TRUE, Len(out), FALSE)
    /\ Emitted' = out
    /\ UNCHANGED <<managerVars, hostVars, Listeners>>

CallInjectActionStarted ==
    \E n \in ActionNames :
        LET r == InjectActionStarted(World, n)
        IN  /\ Install(r.w)
            /\ Injected("InjectActionStarted", n, r.out)

CallInjectActionTriggered ==
    \E n \in ActionNames :
        LET r == InjectActionTriggered(World, n)
        IN  /\ Install(r.w)
            /\ Injected("InjectActionTriggered", n, r.out)

CallInjectActionCompleted ==
    \E n \in ActionNames :
        LET r == InjectActionCompleted(World, n)
        IN  /\ Install(r.w)
            /\ Injected("InjectActionCompleted", n, r.out)

\* Vectors are written as texts.
CallInjectAxis2D ==
    \E n \in ActionNames, v \in {"(0,1)", "(1,0)"} :
        LET r == InjectAxis2D(World, n, v)
        IN  /\ Install(r.w)
            /\ Injected("InjectAxis2D", n, r.out)

\* The value a convenience call was given is recorded with the call.
ModifiersWithinBounds(w) ==
    \A n \in DOMAIN w.CreatedInputActions :
        Len(w.CreatedInputActions[n].Modifiers) <= MaxModifiers

CallSetActionDeadZone ==
    \E n \in ActionNames, LowerThreshold \in {10, 20} :
        LET r == SetActionDeadZone(World, n, LowerThreshold, One)
        IN  /\ ModifiersWithinBounds(r.w)
            /\ Install(r.w)
            /\ Returned([Call("SetActionDeadZone", n, r.ret, 0, FALSE)
                            EXCEPT !.value = LowerThreshold])

CallSetActionSensitivity ==
    \E n \in ActionNames, Sensitivity \in {50, 2 * One} :
        LET r == SetActionSensitivity(World, n, Sensitivity)
        IN  /\ ModifiersWithinBounds(r.w)
            /\ Install(r.w)
            /\ Returned([Call("SetActionSensitivity", n, r.ret, 0, FALSE)
                            EXCEPT !.value = Sensitivity])

CallSetActionInvertY ==
    \E n \in ActionNames, bInvert \in BOOLEAN :
        LET r == SetActionInvertY(World, n, bInvert)
        IN  /\ ModifiersWithinBounds(r.w)
            /\ Install(r.w)
            /\ Returned([Call("SetActionInvertY", n, r.ret, 0, FALSE)
                            EXCEPT !.value = bInvert])

CallBindActionEvents ==
    \E n \in ActionNames :
        LET r == BindActionEvents(World, n)
        IN  /\ WithinBounds(r.w)
            /\ Install(r.w)
            /\ Returned(Call("BindActionEvents", n, r.ret, r.made, r.rebuilt))

CallBindAllActionEvents ==
    LET w == BindAllActionEvents(World)
    IN  /\ WithinBounds(w)
        /\ Install(w)
        /\ Returned(Call("BindAllActionEvents", "", TRUE, 0, Rebuilt(w)))

CallTryBindPendingActions ==
    \E order \in Orders(PendingBindActions), goesOn \in BOOLEAN :
        LET r == TryBindPendingActions(World, order, goesOn)
        IN  /\ WithinBounds(r.w)
            /\ Install(r.w)
            /\ Returned(Call("TryBindPendingActions", "", r.ret > 0, r.ret, r.rebuilt))

(***************************************************************************)
(* Steps of the host.                                                      *)
(***************************************************************************)
HostStep(op, arg) ==
    /\ lastCall' = Call(op, arg, TRUE, 0, FALSE)
    /\ Emitted' = <<>>
    /\ UNCHANGED managerVars
    /\ UNCHANGED Listeners

\* The controller gets an input component: a new one, or one that exists.
HostSetInputComponent ==
    \E c \in Components :
        /\ OwningController # NoController
        /\ c # InputComponent
        /\ InputComponent' = c
        /\ LiveComponents' = LiveComponents \cup {c}
        /\ HostStep("HostSetInputComponent", c)
        /\ UNCHANGED <<engineVars, LocalPlayerReady, Generation>>

\* The controller gets its first input component, and keeps it.
HostAttachInputComponent ==
    \E c \in {x \in Components : \A y \in Components : x <= y} :
        /\ OwningController # NoController
        /\ InputComponent = NoComponent
        /\ LiveComponents = {}
        /\ InputComponent' = c
        /\ LiveComponents' = {c}
        /\ HostStep("HostAttachInputComponent", c)
        /\ UNCHANGED <<engineVars, LocalPlayerReady, Generation>>

\* The controller loses its input component; the object stays.
HostClearInputComponent ==
    /\ InputComponent # NoComponent
    /\ InputComponent' = NoComponent
    /\ HostStep("HostClearInputComponent", InputComponent)
    /\ UNCHANGED <<engineVars, LiveComponents, LocalPlayerReady, Generation>>

\* An input component is destroyed, and its bindings with it; weak pointers
\* to it become null.
HostDestroyInputComponent ==
    \E c \in LiveComponents :
        /\ LiveComponents' = LiveComponents \ {c}
        /\ InputComponent' = IF InputComponent = c THEN NoComponent ELSE InputComponent
        /\ BoundEnhancedInputComponent' =
              IF BoundEnhancedInputComponent = c THEN NoComponent
              ELSE BoundEnhancedInputComponent
        /\ Subscriptions' = [b \in {x \in BagToSet(Subscriptions) : x.Component # c} |->
                                Subscriptions[b]]
        /\ HostStep("HostDestroyInputComponent", c)
        /\ UNCHANGED <<PlayerController, OwningController, MappingContext,
                       CreatedInputActions, BoundActions, PendingBindActions,
                       AsyncListeners, InputActionObjects, SubsystemHasContext,
                       LocalPlayerReady, Generation>>

\* The local player and its subsystem come and go.
HostSetLocalPlayer ==
    /\ LocalPlayerReady' = ~LocalPlayerReady
    /\ SubsystemHasContext' = FALSE
    /\ HostStep("HostSetLocalPlayer", "")
    /\ UNCHANGED <<PlayerController, OwningController, MappingContext,
                   CreatedInputActions, BoundEnhancedInputComponent, BoundActions,
                   PendingBindActions, AsyncListeners, InputActionObjects,
                   Subscriptions, InputComponent, LiveComponents, Generation>>

\* Input action objects nothing refers to any more are collected.
Referenced == {CreatedInputActions[n].Id : n \in DOMAIN CreatedInputActions}

HostCollectGarbage ==
    /\ Generation < MaxGeneration
    /\ InputActionObjects # Referenced
    /\ InputActionObjects' = Referenced
    /\ Generation' = Generation + 1
    /\ HostStep("HostCollectGarbage", "")
    /\ UNCHANGED <<PlayerController, OwningController, MappingContext,
                   CreatedInputActions, BoundEnhancedInputComponent, BoundActions,
                   PendingBindActions, AsyncListeners, Subscriptions,
                   SubsystemHasContext, InputComponent, LiveComponents,
                   LocalPlayerReady>>

\* The player's input evaluates an action of the engine and the controller's
\* input component fires the event; the handlers invoked notify listeners.
HostActionEvent ==
    \E n \in DOMAIN CreatedInputActions, k \in TriggerEvents, v \in Values :
        /\ PlayerController # NoController
        /\ IsLocalController(PlayerController)
        /\ LocalPlayerReady
        /\ InputComponent # NoComponent
        /\ LET out == Deliver(World, CreatedInputActions[n].Id, k, v)
               notified == IF out = <<>> THEN {}
                           ELSE NotifyAsyncListeners(World, n, k, v)
           IN  /\ Emitted' = out
               /\ lastCall' = [Call("HostActionEvent", n, TRUE, Len(out), FALSE)
                                 EXCEPT !.event = k, !.value = v]
               /\ Listeners' = [l \in ListenerIds |->
                                   IF l \in notified
                                   THEN HandleInputEvent(Listeners[l], n, k, v, FALSE).l
                                   ELSE Listeners[l]]
        /\ UNCHANGED <<engineVars, hostVars, managerVars>>

(***************************************************************************)
(* Calls of the manager, and the host's steps on controllers and files.    *)
(***************************************************************************)
\* The controllers a caller can pass: those the host has not destroyed, or
\* none.
Callable(cs) == {c \in cs \cap PlayerControllers : ControllerLife[c] = "Alive"}
                    \cup (cs \cap {NoController})

ManagerActionBindings ==
    {[FS_InputActionBinding EXCEPT !.InputActionName = n, !.KeyBindings = ks] :
        n \in ActionNames,
        ks \in {<<>>, <<NewKeyBinding("SpaceBar")>>,
                <<NewKeyBinding("Enter"), NewKeyBinding("SpaceBar")>>}}

ManagerAxisBindings == {AxisBinding(n, FALSE) : n \in ActionNames}

TemplateProfiles ==
    {[FS_InputProfile EXCEPT !.ActionBindings = p.ActionBindings,
                             !.AxisBindings = p.AxisBindings] : p \in Profiles}

\* The model's bounds on what a manager call leaves behind.
ManagerWithinBounds(m) ==
    /\ Len(m.Integrations) <= MaxIntegrations
    /\ \A i \in 1..Len(m.Integrations) : WithinBounds(m.Integrations[i].Engine)
    /\ \A c \in DOMAIN m.PlayerDataMap :
          /\ Len(m.PlayerDataMap[c].ActiveProfile.ActionBindings) <= MaxBindings
          /\ Len(m.PlayerDataMap[c].ActiveProfile.AxisBindings) <= MaxBindings
          /\ \A i \in 1..Len(m.PlayerDataMap[c].ActiveProfile.ActionBindings) :
                Len(m.PlayerDataMap[c].ActiveProfile.ActionBindings[i].KeyBindings) <= MaxKeys

\* The manager is left as m, the call is recorded, the one engine of the
\* other specifications and the host are as they were.
ManagerReturned(m, call) ==
    /\ InstallManager(m)
    /\ managerCall' = call
    /\ UNCHANGED <<engineVars, hostVars, Listeners, lastCall, Emitted>>

CallRegisterPlayer(cs) ==
    \E c \in Callable(cs) :
        LET r == RegisterPlayer(Manager, c)
        IN  /\ ManagerWithinBounds(r.m)
            /\ ManagerReturned(r.m, ManagerCall("RegisterPlayer", c, NAME_None, "", r.ret))

CallUnregisterPlayer(cs) ==
    \E c \in Callable(cs) :
        /\ ManagerWithinBounds(UnregisterPlayer(Manager, c))
        /\ ManagerReturned(UnregisterPlayer(Manager, c),
                           ManagerCall("UnregisterPlayer", c, NAME_None, "", TRUE))

CallGetIntegrationForPlayer(cs) ==
    \E c \in Callable(cs) :
        LET r == GetIntegrationForPlayer(Manager, c)
        IN  /\ ManagerWithinBounds(r.m)
            /\ ManagerReturned(r.m,
                   ManagerCall("GetIntegrationForPlayer", c, NAME_None, "", r.ret))

\* The queries: they return, and leave the manager as it is.
CallGetProfileForPlayer(cs) ==
    \E c \in Callable(cs) :
        ManagerReturned(Manager, ManagerCall("GetProfileForPlayer", c, NAME_None, "",
                                                GetProfileForPlayer(Manager, c)))

CallHasPlayerRegistered(cs) ==
    \E c \in Callable(cs) :
        ManagerReturned(Manager, ManagerCall("HasPlayerRegistered", c, NAME_None, "",
                                                HasPlayerRegistered(Manager, c)))

CallGetRegisteredPlayers ==
    LET r == GetRegisteredPlayers(Manager)
    IN  /\ GetRegisteredPlayerCount(Manager) = Cardinality(r)
        /\ ManagerReturned(Manager, ManagerCall("GetRegisteredPlayers", NoController,
                                                NAME_None, "", r))

CallHasPlayerModifiedProfile(cs) ==
    \E c \in Callable(cs) :
        ManagerReturned(Manager, ManagerCall("HasPlayerModifiedProfile", c, NAME_None, "",
                                                HasPlayerModifiedProfile(Manager, c)))

CallGetKeysForAction(cs) ==
    \E c \in Callable(cs), n \in ActionNames :
        ManagerReturned(Manager, ManagerCall("GetKeysForAction", c, n, "",
                                                GetKeysForAction(Manager, c, n)))

CallSaveProfileTemplate(profiles) ==
    \E t \in TemplateNames, p \in profiles :
        LET r == SaveProfileTemplate(Manager, t, p)
        IN  /\ ManagerWithinBounds(r.m)
            /\ ManagerReturned(r.m, ManagerCall("SaveProfileTemplate", NoController, t, "",
                                                r.ret))

\* UCPP_InputProfileStorage::SaveProfile and LoadProfile, called directly.
CallSaveProfile(profiles) ==
    \E p \in profiles :
        LET m == StorageSaveProfile(Manager, p)
        IN  /\ ManagerWithinBounds(m)
            /\ ManagerReturned(m, ManagerCall("SaveProfile", NoController, p.ProfileName, p,
                                              TRUE))

\* The record keeps OutProfile as it was given, and as ret what the call
\* returned with OutProfile as it left it.
CallLoadProfile(names, outProfiles) ==
    \E n \in names, OutProfile \in outProfiles :
        LET r == StorageLoadProfile(Manager, n, OutProfile)
        IN  /\ InstallManager(Manager)
            /\ managerCall' = ManagerCall("LoadProfile", NoController, n, OutProfile, r)
            /\ UNCHANGED <<engineVars, hostVars, Listeners, lastCall, Emitted>>

CallLoadProfileTemplate ==
    \E t \in TemplateNames :
        LET r == LoadProfileTemplate(Manager, t)
        IN  /\ ManagerWithinBounds(r.m)
            /\ ManagerReturned(r.m, ManagerCall("LoadProfileTemplate", NoController, t, "",
                                                r.ret))

CallDeleteProfileTemplate ==
    \E t \in TemplateNames :
        LET r == DeleteProfileTemplate(Manager, t)
        IN  /\ ManagerWithinBounds(r.m)
            /\ ManagerReturned(r.m, ManagerCall("DeleteProfileTemplate", NoController, t, "",
                                                r.ret))

CallApplyTemplateToPlayer(cs) ==
    \E c \in Callable(cs), t \in TemplateNames :
        LET r == ApplyTemplateToPlayer(Manager, c, t)
        IN  /\ ManagerWithinBounds(r.m)
            /\ ManagerReturned(r.m, ManagerCall("ApplyTemplateToPlayer", c, t, "", r.ret))

\* The per-player binding helpers.
CallSetPlayerActionBinding(cs) ==
    \E c \in Callable(cs), n \in ActionNames, b \in ManagerActionBindings :
        LET r == SetPlayerActionBinding(Manager, c, n, b)
        IN  /\ ManagerWithinBounds(r.m)
            /\ ManagerReturned(r.m, ManagerCall("SetPlayerActionBinding", c, n, b, r.ret))

CallRemovePlayerActionBinding(cs) ==
    \E c \in Callable(cs), n \in ActionNames :
        LET r == RemovePlayerActionBinding(Manager, c, n)
        IN  /\ ManagerWithinBounds(r.m)
            /\ ManagerReturned(r.m, ManagerCall("RemovePlayerActionBinding", c, n, "", r.ret))

CallSetPlayerAxisBinding(cs) ==
    \E c \in Callable(cs), n \in ActionNames, b \in ManagerAxisBindings :
        LET r == SetPlayerAxisBinding(Manager, c, n, b)
        IN  /\ ManagerWithinBounds(r.m)
            /\ ManagerReturned(r.m, ManagerCall("SetPlayerAxisBinding", c, n, b, r.ret))

CallRemovePlayerAxisBinding(cs) ==
    \E c \in Callable(cs), n \in ActionNames :
        LET r == RemovePlayerAxisBinding(Manager, c, n)
        IN  /\ ManagerWithinBounds(r.m)
            /\ ManagerReturned(r.m, ManagerCall("RemovePlayerAxisBinding", c, n, "", r.ret))

CallSetPrimaryKeyForAction(cs) ==
    \E c \in Callable(cs), n \in ActionNames, k \in ManagerKeys :
        LET r == SetPrimaryKeyForAction(Manager, c, n, k)
        IN  /\ ManagerWithinBounds(r.m)
            /\ ManagerReturned(r.m, ManagerCall("SetPrimaryKeyForAction", c, n, k, r.ret))

CallAddKeyToAction(cs) ==
    \E c \in Callable(cs), n \in ActionNames, k \in ManagerKeys :
        LET r == AddKeyToAction(Manager, c, n, k)
        IN  /\ ManagerWithinBounds(r.m)
            /\ ManagerReturned(r.m, ManagerCall("AddKeyToAction", c, n, k, r.ret))

CallRemoveKeyFromAction(cs) ==
    \E c \in Callable(cs), n \in ActionNames, k \in ManagerKeys :
        LET r == RemoveKeyFromAction(Manager, c, n, k)
        IN  /\ ManagerWithinBounds(r.m)
            /\ ManagerReturned(r.m, ManagerCall("RemoveKeyFromAction", c, n, k, r.ret))

CallClearActionKeys(cs) ==
    \E c \in Callable(cs), n \in ActionNames :
        LET r == ClearActionKeys(Manager, c, n)
        IN  /\ ManagerWithinBounds(r.m)
            /\ ManagerReturned(r.m, ManagerCall("ClearActionKeys", c, n, "", r.ret))

CallSwapActionBindings(cs) ==
    \E c \in Callable(cs), a \in ActionNames, b \in ActionNames :
        LET r == SwapActionBindings(Manager, c, a, b)
        IN  /\ ManagerWithinBounds(r.m)
            /\ ManagerReturned(r.m, ManagerCall("SwapActionBindings", c, a, b, r.ret))

CallSetAxisSensitivity(cs) ==
    \E c \in Callable(cs), n \in ActionNames, v \in {2 * One} :
        LET r == SetAxisSensitivity(Manager, c, n, v)
        IN  /\ ManagerWithinBounds(r.m)
            /\ ManagerReturned(r.m, ManagerCall("SetAxisSensitivity", c, n, v, r.ret))

CallSetAxisDeadZone(cs) ==
    \E c \in Callable(cs), n \in ActionNames, v \in {10} :
        LET r == SetAxisDeadZone(Manager, c, n, v)
        IN  /\ ManagerWithinBounds(r.m)
            /\ ManagerReturned(r.m, ManagerCall("SetAxisDeadZone", c, n, v, r.ret))

CallApplyPlayerProfileToEnhancedInput(cs) ==
    \E c \in Callable(cs) :
        LET r == ApplyPlayerProfileToEnhancedInput(Manager, c)
        IN  /\ ManagerWithinBounds(r.m)
            /\ ManagerReturned(r.m, ManagerCall("ApplyPlayerProfileToEnhancedInput", c,
                                                NAME_None, "", r.ret))

\* The host destroys a controller; later the object is collected and the
\* handle is dead.
HostDestroyController ==
    \E c \in PlayerControllers :
        /\ ControllerLife[c] = "Alive"
        /\ ControllerLife' = [ControllerLife EXCEPT ![c] = "Destroyed"]
        /\ managerCall' = ManagerCall("HostDestroyController", c, NAME_None, "", TRUE)
        /\ UNCHANGED <<PlayerDataMap, ProfileTemplates, SavedProfiles, Integrations,
                       engineVars, hostVars, Listeners, lastCall, Emitted>>

HostCollectController ==
    \E c \in PlayerControllers :
        /\ ControllerLife[c] = "Destroyed"
        /\ ControllerLife' = [ControllerLife EXCEPT ![c] = "Collected"]
        /\ managerCall' = ManagerCall("HostCollectController", c, NAME_None, "", TRUE)
        /\ UNCHANGED <<PlayerDataMap, ProfileTemplates, SavedProfiles, Integrations,
                       engineVars, hostVars, Listeners, lastCall, Emitted>>

\* A profile file written by something other than this manager.
HostWriteProfileFile(profiles) ==
    \E t \in TemplateNames, p \in profiles :
        /\ SavedProfiles' = AddKey(SavedProfiles, t,
                                   SerializeProfileToJson([p EXCEPT !.ProfileName = t]))
        /\ SavedProfiles' # SavedProfiles
        /\ managerCall' = ManagerCall("HostWriteProfileFile", NoController, t, "", TRUE)
        /\ UNCHANGED <<PlayerDataMap, ProfileTemplates, Integrations, ControllerLife,
                       engineVars, hostVars, Listeners, lastCall, Emitted>>

\* A profile file is left with a text that is no JSON.
HostCorruptProfileFile ==
    \E t \in TemplateNames :
        /\ SavedProfiles' = AddKey(SavedProfiles, t, [Text |-> "{"])
        /\ SavedProfiles' # SavedProfiles
        /\ managerCall' = ManagerCall("HostCorruptProfileFile", NoController, t, "", TRUE)
        /\ UNCHANGED <<PlayerDataMap, ProfileTemplates, Integrations, ControllerLife,
                       engineVars, hostVars, Listeners, lastCall, Emitted>>

\* A profile file is removed by something other than this manager.
HostRemoveProfileFile ==
    \E t \in DOMAIN SavedProfiles :
        /\ SavedProfiles' = RemoveKey(SavedProfiles, t)
        /\ managerCall' = ManagerCall("HostRemoveProfileFile", NoController, t, "", TRUE)
        /\ UNCHANGED <<PlayerDataMap, ProfileTemplates, Integrations, ControllerLife,
                       engineVars, hostVars, Listeners, lastCall, Emitted>>

\* The local player of the host comes or goes.
HostSetLocalPlayerOfManager ==
    /\ LocalPlayerReady' = ~LocalPlayerReady
    /\ managerCall' = ManagerCall("HostSetLocalPlayer", NoController, NAME_None, "", TRUE)
    /\ UNCHANGED <<PlayerDataMap, ProfileTemplates, SavedProfiles, Integrations,
                   ControllerLife, engineVars, InputComponent, LiveComponents, Generation,
                   Listeners, lastCall, Emitted>>

(***************************************************************************)
(* Spec: the life of the event bindings.  The engine has a controller or   *)
(* none; actions are created and emptied; the controller's input component *)
(* comes, goes, is replaced and destroyed.                                 *)
(***************************************************************************)
Next ==
    \/ CallSetController({"LocalPC", NoController})
    \/ CallCreateInputAction({"Boolean"})
    \/ CallClearAllMappings
    \/ CallBindActionEvents
    \/ CallBindAllActionEvents
    \/ CallTryBindPendingActions
    \/ HostSetInputComponent
    \/ HostClearInputComponent
    \/ HostDestroyInputComponent

Spec == Init /\ [][Next]_vars

(***************************************************************************)
(* Claims about the life of the event bindings, checked under Spec.        *)
(***************************************************************************)
\* Whether every trigger event of the action named n has a binding on
\* component c.
SubscribedOn(n, c) ==
    /\ n \in DOMAIN CreatedInputActions
    /\ \A k \in TriggerEvents :
          \E b \in BagToSet(Subscriptions) :
              /\ b.Component = c
              /\ b.Action = CreatedInputActions[n].Id
              /\ b.TriggerEvent = k
              /\ b.Payload = n

\* C1: in every reachable state of the engine no name is both in
\* PendingBindActions and in BoundActions (invariant I3).
C1_PendingAndBoundDisjoint == PendingBindActions \cap BoundActions = {}

\* C2: BindActionEvents(n) for a created action n, called while the controller
\* has no input component, returns false and leaves n in PendingBindActions,
\* so that HasPendingActions() is true afterwards.
C2_FailedBindIsPending ==
    [][(/\ lastCall'.op = "BindActionEvents"
        /\ lastCall'.arg \in DOMAIN CreatedInputActions
        /\ InputComponent = NoComponent)
       => (/\ lastCall'.ret = FALSE
           /\ lastCall'.arg \in PendingBindActions'
           /\ Cardinality(PendingBindActions') > 0)]_vars

\* C3: TryBindPendingActions, called while the controller has an input
\* component and every pending action is a created one, returns the number of
\* pending actions, after which all of them are bound and none is pending.
C3_TryBindBindsAllPending ==
    [][(/\ lastCall'.op = "TryBindPendingActions"
        /\ OwningController # NoController
        /\ InputComponent # NoComponent
        /\ PendingBindActions \subseteq DOMAIN CreatedInputActions)
       => (/\ lastCall'.count = Cardinality(PendingBindActions)
           /\ PendingBindActions \subseteq BoundActions'
           /\ PendingBindActions' = {})]_vars

NextMapping ==
    \/ CallSetPlayerController({"LocalPC"})
    \/ CallSetController({"AIController", NoController})
    \/ CallCreateInputAction({"Boolean"})
    \/ CallMapKeyToAction
    \/ CallMapKeyBindingToAction
    \/ CallApplyProfile(Profiles)
    \/ CallClearAllMappings
    \/ HostSetLocalPlayer

SpecMapping == Init /\ [][NextMapping]_vars

\* C6: after a call of CreateInputAction, MapKeyToAction, MapKeyBindingToAction
\* or ApplyProfile that added an action to CreatedInputActions, every created
\* action is in BoundActions or in PendingBindActions.
C6_CreatedIsBoundOrPending ==
    [][(/\ lastCall'.op \in {"CreateInputAction", "MapKeyToAction",
                             "MapKeyBindingToAction", "ApplyProfile"}
        /\ IF lastCall'.op = "ApplyProfile"
           THEN DOMAIN CreatedInputActions' # {}
           ELSE DOMAIN CreatedInputActions' # DOMAIN CreatedInputActions)
       => DOMAIN CreatedInputActions' \subseteq BoundActions' \cup PendingBindActions']_vars

(***************************************************************************)
(* SpecSameComponent: the local player's controller gets one input         *)
(* component and keeps it, no input action object is collected, and the   *)
(* host fires the actions' events.                                         *)
(***************************************************************************)
NextSameComponent ==
    \/ CallSetPlayerController({"LocalPC"})
    \/ CallCreateInputAction({"Boolean"})
    \/ CallApplyProfile(Profiles)
    \/ CallClearAllMappings
    \/ CallBindActionEvents
    \/ CallBindAllActionEvents
    \/ CallTryBindPendingActions
    \/ HostAttachInputComponent
    \/ HostSetLocalPlayer
    \/ HostActionEvent

SpecSameComponent == Init /\ [][NextSameComponent]_vars

\* How many bindings to a trigger event the action named n has, on all
\* components together.
BindingCount(n, k) ==
    LET bs == {b \in BagToSet(Subscriptions) : b.Payload = n /\ b.TriggerEvent = k}
        RECURSIVE Sum(_)
        Sum(S) == IF S = {} THEN 0
                  ELSE LET b == CHOOSE x \in S : TRUE
                       IN  CopiesIn(b, Subscriptions) + Sum(S \ {b})
    IN  Sum(bs)

\* C4: however often BindActionEvents(n) is called while the input component
\* stays the same, a bound action n has exactly one binding per trigger event
\* (and an action not bound has none), so that an event the host fires for n
\* is broadcast exactly once on the dispatcher of its trigger event.
C4_OneSubscriptionPerTrigger ==
    /\ \A n \in ActionNames, k \in TriggerEvents :
          BindingCount(n, k) = IF n \in BoundActions THEN 1 ELSE 0
    /\ (lastCall.op = "HostActionEvent" /\ lastCall.arg \in BoundActions)
          => Count(Emitted, DispatcherOf(lastCall.event), lastCall.arg) = 1

\* BindActionEvents(n) was called for an action bound already: it returned
\* true and bound nothing.
C4_Witness ==
    /\ lastCall.op = "BindActionEvents"
    /\ lastCall.ret
    /\ lastCall.count = 0
    /\ ~lastCall.rebuilt
    /\ lastCall.arg \in BoundActions
    /\ BoundEnhancedInputComponent = InputComponent
    /\ \A k \in TriggerEvents : BindingCount(lastCall.arg, k) = 1

(***************************************************************************)
(* SpecRecreate: SpecSameComponent with the host collecting the input      *)
(* action objects that the engine let go of, so that an action created     *)
(* again is another object.                                                *)
(***************************************************************************)
NextRecreate ==
    \/ CallSetPlayerController({"LocalPC"})
    \/ CallCreateInputAction({"Boolean"})
    \/ CallApplyProfile(Profiles)
    \/ CallClearAllMappings
    \/ CallBindActionEvents
    \/ HostAttachInputComponent
    \/ HostSetLocalPlayer
    \/ HostCollectGarbage
    \/ HostActionEvent

SpecRecreate == Init /\ [][NextRecreate]_vars

(***************************************************************************)
(* SpecEvents: as before, but the controller's input component is replaced *)
(* by another, or by one it had before.                                    *)
(***************************************************************************)
NextEvents ==
    \/ CallSetPlayerController({"LocalPC"})
    \/ CallCreateInputAction({"Boolean"})
    \/ CallBindActionEvents
    \/ CallBindAllActionEvents
    \/ CallTryBindPendingActions
    \/ HostSetInputComponent
    \/ HostClearInputComponent
    \/ HostSetLocalPlayer
    \/ HostActionEvent

SpecEvents == Init /\ [][NextEvents]_vars

\* C7: an event of kind K the host fires for an action n that is bound on the
\* controller's input component is broadcast as (n, value) exactly once on
\* the dispatcher of K, on no other per-trigger dispatcher, and on
\* OnDynamicInputAction if and only if K is Triggered.
C7_OneBroadcastPerEvent ==
    (/\ lastCall.op = "HostActionEvent"
     /\ lastCall.arg \in BoundActions
     /\ BoundEnhancedInputComponent = InputComponent)
    => /\ Count(Emitted, DispatcherOf(lastCall.event), lastCall.arg) = 1
       /\ \A i \in 1..Len(Emitted) :
             /\ Emitted[i].ActionName = lastCall.arg
             /\ Emitted[i].Value = lastCall.value
             /\ Emitted[i].Dispatcher \in {DispatcherOf(lastCall.event), "OnDynamicInputAction"}
       /\ Count(Emitted, "OnDynamicInputAction", lastCall.arg) =
             IF lastCall.event = "Triggered" THEN 1 ELSE 0

(***************************************************************************)
(* Calls of a listener's methods.  The Blueprint node constructs the       *)
(* listener and activates it once.                                         *)
(***************************************************************************)
ListenerStep(l, L, call, out) ==
    /\ Listeners' = [Listeners EXCEPT ![l] = L]
    /\ lastCall' = call
    /\ Emitted' = out
    /\ UNCHANGED managerVars
    /\ UNCHANGED hostVars

CallWaitForInputAction ==
    \E l \in ListenerIds, c \in {"LocalPC", NoController},
       n \in ActionNames, bOnlyTriggerOnce \in BOOLEAN :
        /\ Listeners[l].State = "None"
        /\ ListenerStep(l, IF c = NoController THEN Listeners[l]
                           ELSE WaitForInputAction(c, n, bOnlyTriggerOnce),
                        Call("WaitForInputAction", l, c # NoController, 0, FALSE), <<>>)
        /\ UNCHANGED engineVars

CallActivate ==
    \E l \in ListenerIds :
        /\ Listeners[l].State = "Alive"
        /\ ~Listeners[l].Activated
        /\ ListenerStep(l, Activate(Listeners[l]), Call("Activate", l, TRUE, 0, FALSE), <<>>)
        /\ Install(RegisterAsyncListener(World, l))

CallCancel ==
    \E l \in ListenerIds :
        LET r == Cancel(Listeners[l])
        IN  /\ Listeners[l].State = "Alive"
            /\ ListenerStep(l, r.l, Call("Cancel", l, TRUE, 0, FALSE), r.out)
            /\ Install(UnregisterAsyncListener(World, l))

CallBeginDestroy ==
    \E l \in ListenerIds :
        /\ Listeners[l].State = "Alive"
        /\ ListenerStep(l, BeginDestroy(Listeners[l]),
                        Call("BeginDestroy", l, TRUE, 0, FALSE), <<>>)
        /\ Install(UnregisterAsyncListener(World, l))

\* An event is delivered to the listener.
CallHandleInputEvent ==
    \E l \in ListenerIds, n \in ActionNames, k \in TriggerEvents, v \in Values,
       cancels \in BOOLEAN :
        LET r == HandleInputEvent(Listeners[l], n, k, v, cancels)
        IN  /\ Listeners[l].State = "Alive"
            /\ r.l.nNotified <= MaxFires
            /\ ListenerStep(l, r.l,
                            [Call("HandleInputEvent", l, TRUE, Len(r.out), FALSE)
                               EXCEPT !.event = k, !.value = v],
                            r.out)
            /\ UNCHANGED engineVars

(***************************************************************************)
(* SpecListener: a listener beside the engine of its player, whose         *)
(* controller has an input component that fires the actions' events.       *)
(***************************************************************************)
NextListener ==
    \/ CallSetPlayerController({"LocalPC"})
    \/ CallCreateInputAction({"Boolean"})
    \/ CallBindActionEvents
    \/ HostAttachInputComponent
    \/ HostSetLocalPlayer
    \/ HostActionEvent
    \/ CallWaitForInputAction
    \/ CallActivate
    \/ CallCancel
    \/ CallBeginDestroy
    \/ CallHandleInputEvent

SpecListener == Init /\ [][NextListener]_vars

\* Whether listener l is registered with the engine: its Activate registered
\* it, and neither Cancel nor BeginDestroy unregistered it since.
Registered(l) ==
    /\ Listeners[l].State = "Alive"
    /\ Listeners[l].bIsActive
    /\ Listeners[l].IntegrationPtr

\* The pins of the listener's callbacks that the last call fired.
PinsFired == {Emitted[i].Dispatcher : i \in 1..Len(Emitted)}

\* C8: every listener that is registered with the engine and not unregistered
\* is notified, with the trigger event observed, of every event of the host
\* that a handler of the engine processes.
C8_RegisteredListenerIsNotified ==
    [][(lastCall'.op = "HostActionEvent" /\ lastCall'.count > 0)
       => \A l \in ListenerIds :
             Registered(l) => /\ Listeners'[l].nNotified = Listeners[l].nNotified + 1
                              /\ Listeners'[l].lastNotified = lastCall'.event]_vars

\* C9: for an activated one-shot listener on action n, the first Triggered
\* event the host fires for n fires OnTriggered once and then OnStopped once,
\* and from then on no event of the host fires a callback of the listener.
C9_OneShotFiresOnceThenStops ==
    [][(lastCall'.op = "HostActionEvent" /\ lastCall'.count > 0
        /\ lastCall'.event = "Triggered")
       => \A l \in ListenerIds :
             (/\ Registered(l)
              /\ Listeners[l].bOnlyTriggerOnce
              /\ Listeners[l].ActionName = lastCall'.arg)
             => IF Listeners[l].nTriggered = 0
                THEN /\ Listeners'[l].nTriggered = 1
                     /\ Listeners'[l].nStopped = 1
                     /\ ~Listeners'[l].bIsActive
                ELSE /\ Listeners'[l].nTriggered = Listeners[l].nTriggered
                     /\ Listeners'[l].nStopped = Listeners[l].nStopped]_vars

\* C10: once Cancel() was called on an active listener, be it from a callback
\* of the listener, an event delivered to the listener fires none of
\* OnStarted, OnOngoing, OnTriggered, OnCompleted and OnCanceled, and
\* whatever calls of Cancel() and BeginDestroy follow, OnStopped has fired
\* exactly once.
C10_NoCallbackAfterCancel ==
    [][\A l \in ListenerIds :
          Listeners[l].Canceled
          => /\ Listeners'[l].nStopped = 1
             /\ (lastCall'.op = "HandleInputEvent" /\ lastCall'.arg = l)
                   => PinsFired' \cap EventPins = {}]_vars

(***************************************************************************)
(* SpecBindings: one registered player whose profile is changed by the     *)
(* per-player binding helpers.                                             *)
(***************************************************************************)
NextBindings ==
    \/ CallRegisterPlayer({"LocalPC"})
    \/ CallSetPlayerActionBinding({"LocalPC"})
    \/ CallRemovePlayerActionBinding({"LocalPC"})
    \/ CallSetPlayerAxisBinding({"LocalPC"})
    \/ CallRemovePlayerAxisBinding({"LocalPC"})
    \/ CallSetPrimaryKeyForAction({"LocalPC"})
    \/ CallAddKeyToAction({"LocalPC"})
    \/ CallRemoveKeyFromAction({"LocalPC"})
    \/ CallClearActionKeys({"LocalPC"})
    \/ CallSwapActionBindings({"LocalPC"})
    \/ CallGetKeysForAction({"LocalPC"})

SpecBindings == Init /\ [][NextBindings]_vars

\* The keys of a binding, in order.
KeysOf(Binding) == [i \in 1..Len(Binding.KeyBindings) |-> Binding.KeyBindings[i].Key]

\* C16: after SetPlayerActionBinding(c, n, b) has returned for a registered
\* controller c, GetKeysForAction(c, n) gives exactly the keys of b, in order.
C16_KeysAreThoseOfTheBinding ==
    [][(managerCall'.op = "SetPlayerActionBinding" /\ managerCall'.ret = TRUE)
       => GetKeysForAction(Manager', managerCall'.c, managerCall'.name)
              = KeysOf(managerCall'.binding)]_vars

\* No two entries of the sequence of names are equal.
Unique(names) == \A i, j \in 1..Len(names) : names[i] = names[j] => i = j

\* C17: in every state reached from an empty profile through the per-player
\* binding helpers, the action names of a player's active profile are
\* pairwise different, and so are its axis names.
C17_NamesAreUnique ==
    \A c \in DOMAIN PlayerDataMap :
        /\ Unique(ActionNamesOf(PlayerDataMap[c].ActiveProfile))
        /\ Unique(AxisNamesOf(PlayerDataMap[c].ActiveProfile))

(***************************************************************************)
(* SpecPlayers: two player controllers are registered and unregistered,    *)
(* asked about, given templates and keys, and destroyed and collected by   *)
(* the host.                                                               *)
(***************************************************************************)
PlayerTemplates ==
    {p \in TemplateProfiles : Len(p.ActionBindings) = 1 /\ Len(p.AxisBindings) = 0}

NextPlayers ==
    \/ CallRegisterPlayer(PlayerControllers \cup {NoController})
    \/ CallUnregisterPlayer(PlayerControllers)
    \/ CallGetIntegrationForPlayer(PlayerControllers)
    \/ CallGetProfileForPlayer(PlayerControllers)
    \/ CallHasPlayerRegistered(PlayerControllers)
    \/ CallGetRegisteredPlayers
    \/ CallSaveProfileTemplate(PlayerTemplates)
    \/ CallApplyTemplateToPlayer(PlayerControllers)
    \/ CallClearActionKeys(PlayerControllers)
    \/ CallRemovePlayerActionBinding(PlayerControllers)
    \/ HostDestroyController
    \/ HostCollectController

SpecPlayers == Init /\ [][NextPlayers]_vars

\* The calls addressed to one player that change that player's record.
PerPlayerOps ==
    {"ApplyTemplateToPlayer", "UnregisterPlayer", "SetPlayerActionBinding",
     "RemovePlayerActionBinding", "SetPlayerAxisBinding", "RemovePlayerAxisBinding",
     "SetPrimaryKeyForAction", "AddKeyToAction", "RemoveKeyFromAction",
     "ClearActionKeys", "SwapActionBindings", "SetAxisSensitivity", "SetAxisDeadZone"}

\* C11: a call addressed to one controller leaves the record of every other
\* registered controller as it was: its active profile, the name of its
\* loaded template, its integration and the state of that integration.
C11_OtherPlayersUntouched ==
    [][\A c2 \in GetRegisteredPlayers(Manager) :
          (managerCall'.op \in PerPlayerOps /\ managerCall'.c # c2)
              => /\ c2 \in DOMAIN PlayerDataMap'
                 /\ PlayerDataMap'[c2] = PlayerDataMap[c2]
                 /\ Integrations'[PlayerDataMap[c2].Integration]
                        = Integrations[PlayerDataMap[c2].Integration]]_vars

\* A key list of LocalPC has just been cleared while RemotePC is registered
\* and still holds the keys of its template.
C11_Witness ==
    /\ managerCall.op = "ClearActionKeys"
    /\ managerCall.c = "LocalPC"
    /\ managerCall.ret = TRUE
    /\ "RemotePC" \in GetRegisteredPlayers(Manager)
    /\ PlayerDataMap["RemotePC"].LoadedTemplateName # NAME_None
    /\ \E i \in 1..Len(PlayerDataMap["RemotePC"].ActiveProfile.ActionBindings) :
          PlayerDataMap["RemotePC"].ActiveProfile.ActionBindings[i].KeyBindings # <<>>

\* The calls that read or write the player records.
PlayerRecordOps ==
    PerPlayerOps \cup {"RegisterPlayer", "GetIntegrationForPlayer", "GetProfileForPlayer",
                       "HasPlayerRegistered", "GetRegisteredPlayers",
                       "HasPlayerModifiedProfile", "GetKeysForAction"}

\* C15: a manager call that reads or writes the player records leaves no
\* record of a controller whose object was destroyed and collected before
\* the call.
C15_NextCallEvicts ==
    [][managerCall'.op \in PlayerRecordOps
          => \A c \in PlayerControllers :
                ControllerLife[c] = "Collected" => c \notin DOMAIN PlayerDataMap']_vars

\* C18: RegisterPlayer of a controller that has a valid record returns the
\* integration of that record and leaves the record and the number of
\* registered players as they were; RegisterPlayer of no controller returns
\* none and leaves the manager as it was.
C18_RegisterIsIdempotent ==
    [][managerCall'.op = "RegisterPlayer"
          => LET c == managerCall'.c
             IN  IF c = NoController
                 THEN /\ managerCall'.ret = NoIntegration
                      /\ Manager' = Manager
                 ELSE (c \in DOMAIN PlayerDataMap
                         /\ PlayerDataMap[c].Integration # NoIntegration)
                      => /\ managerCall'.ret = PlayerDataMap[c].Integration
                         /\ c \in DOMAIN PlayerDataMap'
                         /\ PlayerDataMap'[c] = PlayerDataMap[c]
                         /\ GetRegisteredPlayerCount(Manager')
                                = GetRegisteredPlayerCount(Manager)]_vars

\* LocalPC, whose record already names a template, has been registered
\* again.
C18_Witness ==
    /\ managerCall.op = "RegisterPlayer"
    /\ managerCall.c = "LocalPC"
    /\ "LocalPC" \in DOMAIN PlayerDataMap
    /\ PlayerDataMap["LocalPC"].LoadedTemplateName # NAME_None
    /\ managerCall.ret = PlayerDataMap["LocalPC"].Integration

\* The per-player helpers that change a profile in place.
MutationHelpers == PerPlayerOps \ {"ApplyTemplateToPlayer", "UnregisterPlayer"}
RegisteringOps == {"RegisterPlayer", "GetIntegrationForPlayer", "ApplyTemplateToPlayer"}

\* What a query or helper returns for a controller without a record.
FailureOf(op) ==
    CASE op = "GetProfileForPlayer" -> EmptyProfile
      [] op = "GetKeysForAction" -> <<>>
      [] OTHER -> FALSE

LibraryTemplates == {p \in TemplateProfiles : Len(p.AxisBindings) = 1}

NextTemplates ==
    \/ CallRegisterPlayer({"LocalPC"})
    \/ CallSaveProfileTemplate(LibraryTemplates)
    \/ CallLoadProfileTemplate
    \/ CallDeleteProfileTemplate
    \/ HostWriteProfileFile(LibraryTemplates)
    \/ HostSetLocalPlayerOfManager
    \/ CallApplyTemplateToPlayer({"LocalPC"})
    \/ CallSetPrimaryKeyForAction({"LocalPC"})
    \/ CallClearActionKeys({"LocalPC"})
    \/ CallRemovePlayerActionBinding({"LocalPC"})
    \/ CallRemovePlayerAxisBinding({"LocalPC"})
    \/ CallHasPlayerModifiedProfile({"LocalPC"})

SpecTemplates == Init /\ [][NextTemplates]_vars

\* C12: ApplyTemplateToPlayer and the per-player mutation helpers leave the
\* template library and the template files exactly as they were.
C12_TemplatesUntouched ==
    [][managerCall'.op \in {"ApplyTemplateToPlayer"} \cup MutationHelpers
          => /\ ProfileTemplates' = ProfileTemplates
             /\ SavedProfiles' = SavedProfiles]_vars

\* The profile LocalPC took from a template of the library has just been
\* changed by a helper and no longer has the template's action bindings.
C12_Witness ==
    /\ managerCall.op = "SetPrimaryKeyForAction"
    /\ managerCall.ret = TRUE
    /\ "LocalPC" \in DOMAIN PlayerDataMap
    /\ PlayerDataMap["LocalPC"].LoadedTemplateName \in DOMAIN ProfileTemplates
    /\ PlayerDataMap["LocalPC"].ActiveProfile.ActionBindings
           # ProfileTemplates[PlayerDataMap["LocalPC"].LoadedTemplateName].ActionBindings

\* The template name is neither in the library nor a file.
Unresolved(TemplateName) ==
    TemplateName \notin DOMAIN ProfileTemplates \cup DOMAIN SavedProfiles

C14_FailureLeavesPreCallState ==
    [][(managerCall'.op = "ApplyTemplateToPlayer" /\ managerCall'.ret = FALSE)
          => /\ DOMAIN PlayerDataMap' = DOMAIN PlayerDataMap
             /\ \A c \in DOMAIN PlayerDataMap :
                   /\ PlayerDataMap'[c].ActiveProfile = PlayerDataMap[c].ActiveProfile
                   /\ PlayerDataMap'[c].LoadedTemplateName
                          = PlayerDataMap[c].LoadedTemplateName]_vars

\* The template a name stands for: the one of the library, else the file.
StoredTemplate(TemplateName) ==
    IF TemplateName \in DOMAIN ProfileTemplates THEN ProfileTemplates[TemplateName]
    ELSE DeserializeProfileFromJson(SavedProfiles[TemplateName], EmptyProfile).Profile

AxisShapes ==
    {[ValueType |-> "Axis1D", DeadZone |-> 0, Sensitivity |-> One, bInvert |-> FALSE,
      Scale |-> One, bSwizzleYXZ |-> FALSE],
     [ValueType |-> "Axis2D", DeadZone |-> 20, Sensitivity |-> 2 * One, bInvert |-> TRUE,
      Scale |-> 0 - One, bSwizzleYXZ |-> TRUE],
     [ValueType |-> "Axis1D", DeadZone |-> 20, Sensitivity |-> One, bInvert |-> TRUE,
      Scale |-> One, bSwizzleYXZ |-> FALSE],
     [ValueType |-> "Axis2D", DeadZone |-> 0, Sensitivity |-> 2 * One, bInvert |-> FALSE,
      Scale |-> 50, bSwizzleYXZ |-> TRUE]}

\* At most one action binding, named AllNames[1], and at most one axis
\* binding: every shape enabled, and the first one disabled as well.
AppliedProfiles ==
    LET AppliedActionBindings ==
            {[ActionBinding(AllNames[1], e)
                 EXCEPT !.KeyBindings = <<KeyBinding("SpaceBar", s)>>] :
                e \in BOOLEAN, s \in BOOLEAN}
        AppliedAxisBindings ==
            {[FS_InputAxisBinding EXCEPT
                 !.InputAxisName = n, !.ValueType = x.ValueType, !.DeadZone = x.DeadZone,
                 !.Sensitivity = x.Sensitivity, !.bInvert = x.bInvert,
                 !.bEnabled = e \/ x.DeadZone > 0 \/ x.ValueType # "Axis1D",
                 !.AxisBindings = <<[Key |-> "SpaceBar", Scale |-> x.Scale,
                                     bSwizzleYXZ |-> x.bSwizzleYXZ]>>] :
                n \in ActionNames, x \in AxisShapes, e \in BOOLEAN}
    IN  {[ActionBindings |-> a, AxisBindings |-> x] :
            a \in {<<>>} \cup {<<b>> : b \in AppliedActionBindings},
            x \in {<<>>} \cup {<<b>> : b \in AppliedAxisBindings}}

NextProfile ==
    \/ CallSetPlayerController({"LocalPC"})
    \/ CallMapKeyBindingToAction
    \/ CallApplyProfile(AppliedProfiles)
    \/ HostSetLocalPlayer

SpecProfile == Init /\ [][NextProfile]_vars

EnabledActions(Profile) ==
    {i \in DOMAIN Profile.ActionBindings : Profile.ActionBindings[i].bEnabled}

EnabledAxes(Profile) ==
    {i \in DOMAIN Profile.AxisBindings : Profile.AxisBindings[i].bEnabled}

\* A mapping of the context comes from the profile: its action is the one
\* created under the name of an enabled binding and its key is one of that
\* binding's keys.
DerivedFrom(Mapping, Profile, Created) ==
    \/ \E i \in EnabledActions(Profile) :
          LET b == Profile.ActionBindings[i]
          IN  /\ Mapping.Action = Created[b.InputActionName].Id
              /\ \E k \in DOMAIN b.KeyBindings : b.KeyBindings[k].Key = Mapping.Key
    \/ \E i \in EnabledAxes(Profile) :
          LET b == Profile.AxisBindings[i]
          IN  /\ Mapping.Action = Created[b.InputAxisName].Id
              /\ \E k \in DOMAIN b.AxisBindings : b.AxisBindings[k].Key = Mapping.Key

\* C22: after ApplyProfile(P) the created actions are exactly those named by
\* the enabled action bindings and enabled axis bindings of P - none for a
\* disabled binding, none left from what the engine held before - and every
\* entry of the mapping context comes from a binding of P.
C22_OnlyTheProfile ==
    [][lastCall'.op = "ApplyProfile"
          => LET P == lastCall'.arg
             IN  /\ DOMAIN CreatedInputActions'
                        = {P.ActionBindings[i].InputActionName : i \in EnabledActions(P)}
                          \cup {P.AxisBindings[i].InputAxisName : i \in EnabledAxes(P)}
                 /\ \A i \in DOMAIN MappingContext'.Mappings :
                        DerivedFrom(MappingContext'.Mappings[i], P, CreatedInputActions')]_vars

\* A profile with a disabled action binding and an enabled axis binding has
\* been applied to an engine that held an action under the disabled name.
C22_Witness ==
    /\ lastCall.op = "ApplyProfile"
    /\ EnabledActions(lastCall.arg) = {}
    /\ Len(lastCall.arg.ActionBindings) = 1
    /\ EnabledAxes(lastCall.arg) = {1}
    /\ DOMAIN CreatedInputActions = {lastCall.arg.AxisBindings[1].InputAxisName}
    /\ lastCall.arg.ActionBindings[1].InputActionName \notin DOMAIN CreatedInputActions
    /\ lastCall.arg.ActionBindings[1].InputActionName \in
           {o[1] : o \in InputActionObjects}
    /\ Len(MappingContext.Mappings) = 1

\* C23: after ApplyProfile(P) the action created under the name of an
\* enabled axis binding of P has that binding's value type, whatever else P
\* holds.
C23_AxisValueKind ==
    [][lastCall'.op = "ApplyProfile"
          => LET P == lastCall'.arg
             IN  \A i \in EnabledAxes(P) :
                    CreatedInputActions'[P.AxisBindings[i].InputAxisName].ValueType
                        = P.AxisBindings[i].ValueType]_vars

\* The modifier actions of the chord flags a key binding has, each with its
\* left and right key.
ChordsOf(Binding) ==
    (IF Binding.bShift THEN {<<"ModifierShift", "LeftShift", "RightShift">>} ELSE {})
    \cup (IF Binding.bCtrl THEN {<<"ModifierCtrl", "LeftControl", "RightControl">>} ELSE {})
    \cup (IF Binding.bAlt THEN {<<"ModifierAlt", "LeftAlt", "RightAlt">>} ELSE {})
    \cup (IF Binding.bCmd THEN {<<"ModifierCmd", "LeftCommand", "RightCommand">>} ELSE {})

\* The mappings of a key to an action in a context.
MappingsOf(Context, Action, Key) ==
    {i \in DOMAIN Context.Mappings :
        Context.Mappings[i].Action = Action /\ Context.Mappings[i].Key = Key}

\* C24: after ApplyProfile(P), the mapping made from a key binding with a
\* chord flag has a chord trigger on the flag's modifier action, that action
\* is among the created actions, and its left and right key are mapped to it,
\* as after MapKeyBindingToAction.
C24_ProfileChords ==
    [][lastCall'.op = "ApplyProfile"
          => LET P == lastCall'.arg
                 Created == CreatedInputActions'
                 Context == MappingContext'
             IN  \A i \in EnabledActions(P) :
                 \A k \in DOMAIN P.ActionBindings[i].KeyBindings :
                    LET kb == P.ActionBindings[i].KeyBindings[k]
                        Action == Created[P.ActionBindings[i].InputActionName].Id
                    IN  KeyIsValid(kb.Key) =>
                        \A chord \in ChordsOf(kb) :
                            /\ chord[1] \in DOMAIN Created
                            /\ \A m \in MappingsOf(Context, Action, kb.Key) :
                                  \E t \in DOMAIN Context.Mappings[m].Triggers :
                                     Context.Mappings[m].Triggers[t]
                                        = [Chord |-> Created[chord[1]].Id]
                            /\ MappingsOf(Context, Created[chord[1]].Id, chord[2]) # {}
                            /\ MappingsOf(Context, Created[chord[1]].Id, chord[3]) # {}]_vars

Iff(cond, Modifier) == IF cond THEN <<Modifier>> ELSE <<>>

\* C25: after ApplyProfile, the action of an enabled axis binding has the
\* modifiers [dead zone iff DeadZone > 0, scalar iff Sensitivity differs
\* from 1, negate iff bInvert], and the mapping of each of its keys has
\* [swizzle iff bSwizzleYXZ, negate iff Scale < 0, scalar |Scale| iff it
\* differs from 1, negate iff bInvert and the inversion is not applied to
\* the mapping's value already, as it is by a negate of the action], in
\* these orders.  Stated for axis bindings that share their name with no
\* action binding of the profile.
C25_ModifierLists ==
    [][lastCall'.op = "ApplyProfile"
          => LET P == lastCall'.arg
                 Created == CreatedInputActions'
                 Context == MappingContext'
             IN  \A i \in EnabledAxes(P) :
                    LET x == P.AxisBindings[i]
                        Action == Created[x.InputAxisName]
                        bInvertApplied ==
                            \E m \in DOMAIN Action.Modifiers :
                                Action.Modifiers[m].Modifier = "Negate"
                    IN  (\A a \in EnabledActions(P) :
                            P.ActionBindings[a].InputActionName # x.InputAxisName)
                        => /\ Action.Modifiers
                                = Iff(x.DeadZone > 0,
                                      [Modifier |-> "DeadZone", LowerThreshold |-> x.DeadZone,
                                       UpperThreshold |-> One, Type |-> "Radial"])
                                  \o Iff(x.Sensitivity # One,
                                         [Modifier |-> "Scalar", Scalar |-> x.Sensitivity])
                                  \o Iff(x.bInvert, [Modifier |-> "Negate"])
                           /\ \A k \in DOMAIN x.AxisBindings :
                              \A m \in MappingsOf(Context, Action.Id, x.AxisBindings[k].Key) :
                                 Context.Mappings[m].Modifiers
                                    = Iff(x.AxisBindings[k].bSwizzleYXZ,
                                          [Modifier |-> "SwizzleAxis", Order |-> "YXZ"])
                                      \o Iff(x.AxisBindings[k].Scale < 0, [Modifier |-> "Negate"])
                                      \o Iff(Abs(x.AxisBindings[k].Scale) # One,
                                             [Modifier |-> "Scalar",
                                              Scalar |-> Abs(x.AxisBindings[k].Scale)])
                                      \o Iff(x.bInvert /\ ~bInvertApplied,
                                             [Modifier |-> "Negate"])]_vars

(***************************************************************************)
(* SpecKeys: keys are mapped to actions and unmapped again, one by one and *)
(* by whole profiles.                                                      *)
(***************************************************************************)
NextKeys ==
    \/ CallSetPlayerController({"LocalPC"})
    \/ CallMapKeyToAction
    \/ CallMapKeyBindingToAction
    \/ CallUnmapKeyFromAction
    \/ CallApplyProfile(Profiles)
    \/ HostSetLocalPlayer

SpecKeys == Init /\ [][NextKeys]_vars

\* C26: the mapping context never holds two entries with the same action
\* and the same key.
C26_OneEntryPerActionAndKey ==
    \A i, j \in DOMAIN MappingContext.Mappings :
        (/\ MappingContext.Mappings[i].Action = MappingContext.Mappings[j].Action
         /\ MappingContext.Mappings[i].Key = MappingContext.Mappings[j].Key)
            => i = j

(***************************************************************************)
(* SpecInject: the UI injects action events into an engine that has a      *)
(* local controller, a remote one, or none.                                *)
(***************************************************************************)
NextInject ==
    \/ CallSetPlayerController(PlayerControllers \cup {NoController})
    \/ CallCreateInputAction({"Boolean"})
    \/ CallMapKeyToAction
    \/ CallBindAllActionEvents
    \/ HostAttachInputComponent
    \/ CallInjectActionStarted
    \/ CallInjectActionTriggered
    \/ CallInjectActionCompleted
    \/ CallInjectAxis2D

SpecInject == Init /\ [][NextInject]_vars

InjectOps ==
    {"InjectActionStarted", "InjectActionTriggered", "InjectActionCompleted", "InjectAxis2D"}

\* The dispatchers an injection method broadcasts on when the controller is
\* local.
InjectDispatchers(op) ==
    CASE op = "InjectActionStarted" -> <<"OnActionStarted">>
      [] op = "InjectActionCompleted" -> <<"OnActionCompleted">>
      [] op \in {"InjectActionTriggered", "InjectAxis2D"}
            -> <<"OnActionTriggered", "OnDynamicInputAction">>

\* C27: an injection call broadcasts nothing unless the engine has a
\* controller and it is local; with a local controller it broadcasts, for
\* the name it was given, on OnActionStarted alone (InjectActionStarted), on
\* OnActionCompleted alone (InjectActionCompleted), or on OnActionTriggered
\* and OnDynamicInputAction (InjectActionTriggered, InjectAxis2D); and it
\* changes none of CreatedInputActions, MappingContext, BoundActions and
\* PendingBindActions.
C27_InjectionBroadcasts ==
    [][lastCall'.op \in InjectOps
          => /\ IF PlayerController # NoController /\ IsLocalController(PlayerController)
                THEN /\ [i \in DOMAIN Emitted' |-> Emitted'[i].Dispatcher]
                            = InjectDispatchers(lastCall'.op)
                     /\ \A i \in DOMAIN Emitted' : Emitted'[i].ActionName = lastCall'.arg
                ELSE Emitted' = <<>>
             /\ UNCHANGED <<CreatedInputActions, MappingContext, BoundActions,
                            PendingBindActions>>]_vars

\* InjectActionTriggered has just broadcast for a local controller whose
\* engine has a bound action and a mapping.
C27_Witness ==
    /\ lastCall.op = "InjectActionTriggered"
    /\ IsLocalController(PlayerController)
    /\ Len(Emitted) = 2
    /\ BoundActions # {}
    /\ MappingContext.Mappings # <<>>

(***************************************************************************)
(* SpecModifiers: the dead zone, the sensitivity and the Y inversion of    *)
(* created actions are set again and again.                                *)
(***************************************************************************)
NextModifiers ==
    \/ CallCreateInputAction({"Axis2D"})
    \/ CallSetActionDeadZone
    \/ CallSetActionSensitivity
    \/ CallSetActionInvertY

SpecModifiers == Init /\ [][NextModifiers]_vars

\* The modifiers of a kind an action has.
ModifiersOfKind(ActionName, Kind) ==
    SelectSeq(CreatedInputActions[ActionName].Modifiers, LAMBDA m : m.Modifier = Kind)

\* C28: an action the convenience functions were called on has at most one
\* dead zone, at most one scalar and at most one negate modifier; the one of
\* the kind set last has the value of that call; and after
\* SetActionInvertY(name, false) the action has no negate modifier.
C28_OneModifierPerKind ==
    /\ \A n \in DOMAIN CreatedInputActions :
       \A Kind \in {"DeadZone", "Scalar", "Negate"} : Len(ModifiersOfKind(n, Kind)) <= 1
    /\ (lastCall.op = "SetActionDeadZone" /\ lastCall.arg \in DOMAIN CreatedInputActions)
          => /\ Len(ModifiersOfKind(lastCall.arg, "DeadZone")) = 1
             /\ ModifiersOfKind(lastCall.arg, "DeadZone")[1].LowerThreshold = lastCall.value
    /\ (lastCall.op = "SetActionSensitivity" /\ lastCall.arg \in DOMAIN CreatedInputActions)
          => /\ Len(ModifiersOfKind(lastCall.arg, "Scalar")) = 1
             /\ ModifiersOfKind(lastCall.arg, "Scalar")[1].Scalar
                    = <<lastCall.value, lastCall.value, lastCall.value>>
    /\ (lastCall.op = "SetActionInvertY" /\ lastCall.arg \in DOMAIN CreatedInputActions)
          => Len(ModifiersOfKind(lastCall.arg, "Negate")) = IF lastCall.value THEN 1 ELSE 0

(***************************************************************************)
(* SpecStorage: profiles built in memory are saved and loaded, into a new  *)
(* profile or into one that was in use; and the host leaves profile files  *)
(* that lack one of the fields the reader can do without.                  *)
(***************************************************************************)
RichActionBinding ==
    [FS_InputActionBinding EXCEPT
        !.InputActionName = "Jump", !.DisplayName = "Jump up", !.Category = "Movement",
        !.Description = "Leaves the ground", !.Priority = 2 * One, !.bEnabled = FALSE,
        !.KeyBindings = <<[Key |-> "SpaceBar", Value |-> 50, bShift |-> TRUE,
                           bCtrl |-> TRUE, bAlt |-> TRUE, bCmd |-> TRUE]>>]

RichAxisBinding ==
    [FS_InputAxisBinding EXCEPT
        !.InputAxisName = "Move", !.DisplayName = "Move on", !.Category = "Movement",
        !.Description = "Walks", !.ValueType = "Axis2D", !.DeadZone = 10,
        !.Sensitivity = 2 * One, !.Priority = 2 * One, !.bEnabled = FALSE, !.bInvert = TRUE,
        !.AxisBindings = <<[Key |-> "Enter", Scale |-> 0 - One, bSwizzleYXZ |-> TRUE]>>]

RichModifier ==
    [FS_InputModifier EXCEPT
        !.ModifierType = "Scale", !.DeadZoneValue = 10, !.ScaleValue = 2 * One,
        !.ClampRange = <<0, 50>>, !.bInvert = TRUE, !.bEnabled = FALSE]

\* Profiles named Default: their own fields as constructed or all changed,
\* and bindings and modifiers as constructed, changed, or none.
StorageProfiles ==
    {[(IF rich
       THEN [FS_InputProfile EXCEPT
                !.ProfileDescription = "For tests", !.CreatedBy = "Player",
                !.Version = 3, !.bIsDefault = TRUE, !.bIsCompetitive = TRUE,
                !.ToggleModeActions = <<"Jump">>, !.bActiveActionToggles = <<"Fire">>]
       ELSE FS_InputProfile)
        EXCEPT !.ProfileName = "Default", !.ActionBindings = a, !.AxisBindings = x,
               !.Modifiers = mo, !.Timestamp = t, !.ToggleActionStates = st] :
        rich \in BOOLEAN,
        a \in {<<>>, <<ActionBinding("Fire", TRUE)>>, <<RichActionBinding>>},
        x \in {<<>>, <<RichAxisBinding>>},
        mo \in {<<>>, <<FS_InputModifier>>, <<RichModifier>>},
        t \in {"Now", "Earlier"},
        st \in {<<>>, [n \in {"Jump"} |-> TRUE]}}

\* The fields DeserializeProfileFromJson reads if they are there, by the
\* object they belong to.
OptionalFields ==
    ({"Profile"} \X {"Version", "bIsDefault", "bIsCompetitive", "ToggleModeActions",
                     "bActiveActionToggles", "ActionBindings", "AxisBindings", "Modifiers"})
    \cup ({"ActionObj"} \X {"KeyBindings"})
    \cup ({"KeyObj"} \X {"Value", "bShift", "bCtrl", "bAlt", "bCmd"})
    \cup ({"AxisObj"} \X {"DisplayName", "Description", "ValueType", "Priority",
                          "AxisBindings"})
    \cup ({"AxisKeyObj"} \X {"Scale", "bSwizzleYXZ"})

Without(Object, Name) == [f \in DOMAIN Object \ {Name} |-> Object[f]]

\* A profile object with a field left out of it, or of every object of a
\* kind in it.
Omit(JsonObject, Field) ==
    CASE Field[1] = "Profile" -> Without(JsonObject, Field[2])
      [] Field[1] = "ActionObj" ->
            [JsonObject EXCEPT !.ActionBindings =
                [i \in DOMAIN @ |-> Without(@[i], Field[2])]]
      [] Field[1] = "KeyObj" ->
            [JsonObject EXCEPT !.ActionBindings =
                [i \in DOMAIN @ |->
                    [@[i] EXCEPT !.KeyBindings =
                        [k \in DOMAIN @ |-> Without(@[k], Field[2])]]]]
      [] Field[1] = "AxisObj" ->
            [JsonObject EXCEPT !.AxisBindings =
                [i \in DOMAIN @ |-> Without(@[i], Field[2])]]
      [] Field[1] = "AxisKeyObj" ->
            [JsonObject EXCEPT !.AxisBindings =
                [i \in DOMAIN @ |->
                    [@[i] EXCEPT !.AxisBindings =
                        [k \in DOMAIN @ |-> Without(@[k], Field[2])]]]]

\* The host writes the file of a profile whose fields are all changed, one
\* optional field left out, or a text that is no JSON.
HostWriteDocument ==
    \E p \in {q \in StorageProfiles :
                 /\ q.bIsDefault /\ q.ActionBindings = <<RichActionBinding>>
                 /\ q.AxisBindings = <<RichAxisBinding>> /\ q.Modifiers = <<RichModifier>>} :
    \E doc \in {[Json |-> Omit(SerializeProfileToJson(p).Json, f)] : f \in OptionalFields}
                  \cup {[Text |-> "{"]} :
        /\ SavedProfiles' = AddKey(SavedProfiles, p.ProfileName, doc)
        /\ SavedProfiles' # SavedProfiles
        /\ managerCall' = ManagerCall("HostWriteDocument", NoController, p.ProfileName, "",
                                      TRUE)
        /\ UNCHANGED <<PlayerDataMap, ProfileTemplates, Integrations, ControllerLife,
                       engineVars, hostVars, Listeners, lastCall, Emitted>>

\* A profile that was in use.
UsedProfiles ==
    {p \in StorageProfiles :
        /\ p.bIsDefault /\ p.ActionBindings = <<RichActionBinding>>
        /\ p.AxisBindings = <<RichAxisBinding>> /\ p.Modifiers = <<RichModifier>>
        /\ p.Timestamp = "Earlier" /\ p.ToggleActionStates = <<>>}

NextStorage ==
    \/ CallSaveProfile(StorageProfiles)
    \/ CallLoadProfile({"Default"}, {FS_InputProfile} \cup UsedProfiles)
    \/ HostWriteDocument

SpecStorage == Init /\ [][NextStorage]_vars

\* C29: a profile that was saved and is loaded into a newly constructed
\* profile comes back: the load succeeds and gives a profile equal to the
\* saved one in every field, those of its bindings, keys and modifiers
\* included.
C29_RoundTrip ==
    [][(/\ managerCall.op = "SaveProfile"
        /\ managerCall'.op = "LoadProfile"
        /\ managerCall'.name = managerCall.name
        /\ managerCall'.binding = FS_InputProfile)
          => /\ managerCall'.ret.ret
             /\ managerCall'.ret.Profile = managerCall.binding]_vars

\* The optional fields a stored profile object lacks.
OmittedFields(JsonObject) ==
    {f \in OptionalFields :
        CASE f[1] = "Profile" -> ~HasField(JsonObject, f[2])
          [] f[1] = "ActionObj" ->
                /\ HasField(JsonObject, "ActionBindings")
                /\ \E i \in DOMAIN JsonObject.ActionBindings :
                        ~HasField(JsonObject.ActionBindings[i], f[2])
          [] f[1] = "KeyObj" ->
                /\ HasField(JsonObject, "ActionBindings")
                /\ \E i \in DOMAIN JsonObject.ActionBindings :
                        /\ HasField(JsonObject.ActionBindings[i], "KeyBindings")
                        /\ \E k \in DOMAIN JsonObject.ActionBindings[i].KeyBindings :
                                ~HasField(JsonObject.ActionBindings[i].KeyBindings[k], f[2])
          [] f[1] = "AxisObj" ->
                /\ HasField(JsonObject, "AxisBindings")
                /\ \E i \in DOMAIN JsonObject.AxisBindings :
                        ~HasField(JsonObject.AxisBindings[i], f[2])
          [] f[1] = "AxisKeyObj" ->
                /\ HasField(JsonObject, "AxisBindings")
                /\ \E i \in DOMAIN JsonObject.AxisBindings :
                        /\ HasField(JsonObject.AxisBindings[i], "AxisBindings")
                        /\ \E k \in DOMAIN JsonObject.AxisBindings[i].AxisBindings :
                                ~HasField(JsonObject.AxisBindings[i].AxisBindings[k], f[2])}

\* The field of a profile, or of every object of a kind in it, has the
\* value it has in a newly constructed one.
HasDefault(Profile, Field) ==
    CASE Field[1] = "Profile" -> Profile[Field[2]] = FS_InputProfile[Field[2]]
      [] Field[1] = "ActionObj" ->
            \A i \in DOMAIN Profile.ActionBindings :
                Profile.ActionBindings[i][Field[2]] = FS_InputActionBinding[Field[2]]
      [] Field[1] = "KeyObj" ->
            \A i \in DOMAIN Profile.ActionBindings :
                \A k \in DOMAIN Profile.ActionBindings[i].KeyBindings :
                    Profile.ActionBindings[i].KeyBindings[k][Field[2]] =
                        (IF Field[2] = "Value" THEN One ELSE FALSE)
      [] Field[1] = "AxisObj" ->
            \A i \in DOMAIN Profile.AxisBindings :
                Profile.AxisBindings[i][Field[2]] = FS_InputAxisBinding[Field[2]]
      [] Field[1] = "AxisKeyObj" ->
            \A i \in DOMAIN Profile.AxisBindings :
                \A k \in DOMAIN Profile.AxisBindings[i].AxisBindings :
                    Profile.AxisBindings[i].AxisBindings[k][Field[2]] =
                        (IF Field[2] = "Scale" THEN One ELSE FALSE)

\* C30: loading a stored profile document that is valid JSON succeeds, and
\* every optional field the document omits has its default in the profile
\* the load gives, whatever the output profile held before the call.  The
\* version is left aside: no default is documented for it.
C30_OmittedFieldsDefault ==
    [][(/\ managerCall'.op = "LoadProfile"
        /\ ProfileExists(Manager, managerCall'.name)
        /\ HasField(SavedProfiles[managerCall'.name], "Json"))
          => /\ managerCall'.ret.ret
             /\ \A f \in OmittedFields(SavedProfiles[managerCall'.name].Json)
                            \ {<<"Profile", "Version">>} :
                    HasDefault(managerCall'.ret.Profile, f)]_vars

(***************************************************************************)
(* SpecLibrary: templates are saved, loaded and deleted, profiles are      *)
(* loaded from the store directly, and the files come, break and go        *)
(* behind the manager's back.                                              *)
(***************************************************************************)
NextLibrary ==
    \/ CallSaveProfileTemplate(LibraryTemplates)
    \/ CallLoadProfileTemplate
    \/ CallDeleteProfileTemplate
    \/ CallLoadProfile(TemplateNames, {FS_InputProfile} \cup UsedProfiles)
    \/ HostWriteProfileFile(LibraryTemplates)
    \/ HostCorruptProfileFile
    \/ HostRemoveProfileFile

SpecLibrary == Init /\ [][NextLibrary]_vars

\* The file of the name is absent or its text is no JSON.
Unreadable(ProfileName) ==
    \/ ProfileName \notin DOMAIN SavedProfiles
    \/ ~HasField(SavedProfiles[ProfileName], "Json")

\* C31: a load from a file that is absent or holds malformed JSON returns
\* false; LoadProfile leaves the output profile as it was given, and
\* neither LoadProfile nor LoadProfileTemplate changes the template
\* library, so no template of the name is created.
C31_FailedLoadChangesNothing ==
    [][(managerCall'.op \in {"LoadProfile", "LoadProfileTemplate"}
            /\ Unreadable(managerCall'.name))
          => /\ ProfileTemplates' = ProfileTemplates
             /\ IF managerCall'.op = "LoadProfile"
                THEN /\ managerCall'.ret.ret = FALSE
                     /\ managerCall'.ret.Profile = managerCall'.binding
                ELSE managerCall'.ret = FALSE]_vars

\* A template whose file holds malformed JSON has just been refused, the
\* library holding another template and none of that name.
C31_Witness ==
    /\ managerCall.op = "LoadProfileTemplate"
    /\ managerCall.ret = FALSE
    /\ managerCall.name \in DOMAIN SavedProfiles
    /\ ~HasField(SavedProfiles[managerCall.name], "Json")
    /\ ProfileTemplates # <<>>
    /\ managerCall.name \notin DOMAIN ProfileTemplates

\* C32: whenever DeleteProfileTemplate returns false the template library
\* is as it was: HasTemplate of the name and GetTemplateCount have the
\* values they had before the call.
C32_FailedDeleteChangesNothing ==
    [][(managerCall'.op = "DeleteProfileTemplate" /\ managerCall'.ret = FALSE)
          => /\ HasTemplate(Manager', managerCall'.name)
                    = HasTemplate(Manager, managerCall'.name)
             /\ GetTemplateCount(Manager') = GetTemplateCount(Manager)]_vars

(***************************************************************************)
(* Validation and conflict detection (UCPP_InputValidator).  The functions *)
(* are static and keep no state; ret is what they return.                  *)
(***************************************************************************)
IsValidKey(Key) == ~KeyIsValid(Key) = FALSE

ValidateKeyBinding(Binding, OutErrorMessage) ==
    IF ~IsValidKey(Binding.Key)
    THEN [ret |-> FALSE, OutErrorMessage |-> "Invalid key"]
    ELSE IF Binding.Value < 0 - One \/ Binding.Value > One
    THEN [ret |-> FALSE, OutErrorMessage |-> "Key value must be between -1.0 and 1.0"]
    ELSE [ret |-> TRUE, OutErrorMessage |-> OutErrorMessage]

ValidateAxisKeyBinding(Binding, OutErrorMessage) ==
    IF ~IsValidKey(Binding.Key)
    THEN [ret |-> FALSE, OutErrorMessage |-> "Invalid axis key"]
    ELSE IF Binding.Scale < 0 - 10 * One \/ Binding.Scale > 10 * One
    THEN [ret |-> FALSE, OutErrorMessage |-> "Axis scale must be between -10.0 and 10.0"]
    ELSE [ret |-> TRUE, OutErrorMessage |-> OutErrorMessage]

\* The loop over the inner bindings: the first that fails ends it.
RECURSIVE ValidateEach(_, _, _)
ValidateEach(Validate(_, _), Bindings, OutErrorMessage) ==
    IF Bindings = <<>> THEN [ret |-> TRUE, OutErrorMessage |-> OutErrorMessage]
    ELSE LET r == Validate(Head(Bindings), OutErrorMessage)
         IN  IF ~r.ret THEN r ELSE ValidateEach(Validate, Tail(Bindings), r.OutErrorMessage)

ValidateActionBinding(Binding, OutErrorMessage) ==
    IF Binding.InputActionName = NAME_None
    THEN [ret |-> FALSE, OutErrorMessage |-> "Action name cannot be empty"]
    ELSE IF Len(Binding.KeyBindings) = 0
    THEN [ret |-> FALSE, OutErrorMessage |-> "Action must have at least one key binding"]
    ELSE ValidateEach(ValidateKeyBinding, Binding.KeyBindings, OutErrorMessage)

ValidateAxisBinding(Binding, OutErrorMessage) ==
    IF Binding.InputAxisName = NAME_None
    THEN [ret |-> FALSE, OutErrorMessage |-> "Axis name cannot be empty"]
    ELSE IF Binding.DeadZone < 0 \/ Binding.DeadZone > One
    THEN [ret |-> FALSE, OutErrorMessage |-> "DeadZone must be between 0.0 and 1.0"]
    ELSE IF Binding.Sensitivity < 10 \/ Binding.Sensitivity > 10 * One
    THEN [ret |-> FALSE, OutErrorMessage |-> "Sensitivity must be between 0.1 and 10.0"]
    ELSE ValidateEach(ValidateAxisKeyBinding, Binding.AxisBindings, OutErrorMessage)

\* A comparison of the keys that leaves the chord flags aside.
SameKey(KeyA, KeyB) == KeyA.Key = KeyB.Key

\* The condition under which DetectConflicts adds a pair.
Collides(KeyA, KeyB) ==
    /\ KeyA.Key = KeyB.Key /\ KeyA.bCtrl = KeyB.bCtrl
    /\ KeyA.bShift = KeyB.bShift /\ KeyA.bAlt = KeyB.bAlt
    /\ KeyA.bCmd = KeyB.bCmd

RECURSIVE Flatten(_)
Flatten(Arrays) == IF Arrays = <<>> THEN <<>> ELSE Head(Arrays) \o Flatten(Tail(Arrays))

\* The four loops, outermost first; OutConflicts is emptied before them.
DetectConflicts(ActionBindings) ==
    LET Num == Len(ActionBindings)
        ForKeyB(i, j, a) ==
            Flatten([b \in 1..Len(ActionBindings[j].KeyBindings) |->
                IF Collides(ActionBindings[i].KeyBindings[a], ActionBindings[j].KeyBindings[b])
                THEN <<<<ActionBindings[i].InputActionName,
                         ActionBindings[j].InputActionName>>>>
                ELSE <<>>])
        ForKeyA(i, j) ==
            Flatten([a \in 1..Len(ActionBindings[i].KeyBindings) |-> ForKeyB(i, j, a)])
        ForJ(i) == Flatten([k \in 1..(Num - i) |-> ForKeyA(i, i + k)])
        OutConflicts == Flatten([i \in 1..Num |-> ForJ(i)])
    IN  [ret |-> Len(OutConflicts) > 0, OutConflicts |-> OutConflicts]

(***************************************************************************)
(* SpecValidator: the validator is called on lists of action bindings      *)
(* with up to MaxActions actions of up to MaxKeys keys each, and on axis    *)
(* bindings at and around the limits of their ranges.                      *)
(***************************************************************************)
MaxActions == 3

ChordKeys ==
    {KeyBinding("SpaceBar", FALSE), KeyBinding("SpaceBar", TRUE),
     [KeyBinding("SpaceBar", FALSE) EXCEPT !.bCtrl = TRUE], KeyBinding("Enter", FALSE)}

\* Lists of up to MaxKeys different key bindings.
KeyLists == {SetToSeq(ks) : ks \in {x \in SUBSET ChordKeys : Cardinality(x) <= MaxKeys}}

ConflictInputs ==
    UNION {{[i \in 1..n |-> [FS_InputActionBinding EXCEPT !.InputActionName = AllNames[i],
                                                          !.KeyBindings = ks[i]]] :
                ks \in [1..n -> KeyLists]} : n \in 2..MaxActions}

AxisKeyLists ==
    LET Good == [Key |-> "SpaceBar", Scale |-> One, bSwizzleYXZ |-> FALSE]
    IN  {<<>>, <<Good>>, <<Good, [Good EXCEPT !.Key = InvalidKey]>>,
         <<[Good EXCEPT !.Scale = 10 * One + 1]>>, <<[Good EXCEPT !.Scale = 0 - 10 * One]>>}

AxisInputs ==
    {[FS_InputAxisBinding EXCEPT !.InputAxisName = n, !.AxisBindings = ks,
                                 !.DeadZone = d, !.Sensitivity = s] :
        n \in {NAME_None, "Move"}, ks \in AxisKeyLists,
        d \in {0 - 1, 0, 20, One, One + 1}, s \in {9, 10, One, 10 * One, 10 * One + 1}}

ActionInputs ==
    {[FS_InputActionBinding EXCEPT !.InputActionName = n, !.KeyBindings = ks] :
        n \in {NAME_None, "Jump"},
        ks \in KeyLists \cup {<<KeyBinding(InvalidKey, FALSE)>>,
                              <<[KeyBinding("Enter", FALSE) EXCEPT !.Value = One + 1]>>}}

\* The functions keep no state, so a call after another shows nothing a
\* first call does not: each behaviour makes one.
Validated(op, Binding, r) ==
    /\ managerCall' = ManagerCall(op, NoController, "", Binding, r)
    /\ UNCHANGED <<PlayerDataMap, ProfileTemplates, SavedProfiles, Integrations,
                   ControllerLife, engineVars, hostVars, Listeners, lastCall, Emitted>>

CallDetectConflicts ==
    /\ managerCall.op = "Initialize"
    /\ \E ActionBindings \in ConflictInputs :
          Validated("DetectConflicts", ActionBindings, DetectConflicts(ActionBindings))

CallValidateActionBinding ==
    /\ managerCall.op = "Initialize"
    /\ \E Binding \in ActionInputs :
          Validated("ValidateActionBinding", Binding, ValidateActionBinding(Binding, ""))

CallValidateAxisBinding ==
    /\ managerCall.op = "Initialize"
    /\ \E Binding \in AxisInputs :
          Validated("ValidateAxisBinding", Binding, ValidateAxisBinding(Binding, ""))

NextValidator ==
    \/ CallDetectConflicts
    \/ CallValidateActionBinding
    \/ CallValidateAxisBinding

SpecValidator == Init /\ [][NextValidator]_vars

\* The two action bindings have a key binding with the same key and the
\* same four chord flags.
ShareATuple(BindingA, BindingB) ==
    \E a \in 1..Len(BindingA.KeyBindings), b \in 1..Len(BindingB.KeyBindings) :
        LET KeyA == BindingA.KeyBindings[a]
            KeyB == BindingB.KeyBindings[b]
        IN  <<KeyA.Key, KeyA.bShift, KeyA.bCtrl, KeyA.bAlt, KeyA.bCmd>>
                = <<KeyB.Key, KeyB.bShift, KeyB.bCtrl, KeyB.bAlt, KeyB.bCmd>>

\* Where the action of a name stands in the list.
IndexOf(ActionBindings, Name) ==
    CHOOSE i \in 1..Len(ActionBindings) : ActionBindings[i].InputActionName = Name

\* C33: DetectConflicts reports the pair (A, B) exactly when A stands before
\* B in the list and the two share a (key, shift, ctrl, alt, cmd) tuple, so
\* two actions on one key with different chord flags are not reported; and
\* the pairs come in the order of the list: by the place of A, then of B.
C33_ConflictsAreSharedTuples ==
    managerCall.op = "DetectConflicts"
        => LET ActionBindings == managerCall.binding
               OutConflicts == managerCall.ret.OutConflicts
               Reported == {OutConflicts[p] : p \in 1..Len(OutConflicts)}
               Place(Pair) == <<IndexOf(ActionBindings, Pair[1]),
                                IndexOf(ActionBindings, Pair[2])>>
           IN  /\ \A i, j \in 1..Len(ActionBindings) :
                     <<ActionBindings[i].InputActionName,
                       ActionBindings[j].InputActionName>> \in Reported
                         <=> (i < j /\ ShareATuple(ActionBindings[i], ActionBindings[j]))
               /\ \A p, q \in 1..Len(OutConflicts) :
                     p < q => \/ Place(OutConflicts[p])[1] < Place(OutConflicts[q])[1]
                              \/ /\ Place(OutConflicts[p])[1] = Place(OutConflicts[q])[1]
                                 /\ Place(OutConflicts[p])[2] <= Place(OutConflicts[q])[2]

\* Jump on SpaceBar and Fire on Shift+SpaceBar, and nothing reported.
C33_Witness ==
    /\ managerCall.op = "DetectConflicts"
    /\ Len(managerCall.binding) = 2
    /\ managerCall.binding[1].KeyBindings = <<KeyBinding("SpaceBar", FALSE)>>
    /\ managerCall.binding[2].KeyBindings = <<KeyBinding("SpaceBar", TRUE)>>
    /\ managerCall.ret.OutConflicts = <<>>

\* C34: the result of DetectConflicts holds no pair twice and never both
\* (A, B) and (B, A), however many key tuples the two actions share.
C34_EachPairOnce ==
    managerCall.op = "DetectConflicts"
        => LET OutConflicts == managerCall.ret.OutConflicts
           IN  \A p, q \in 1..Len(OutConflicts) :
                  p # q => /\ OutConflicts[p] # OutConflicts[q]
                           /\ OutConflicts[p] # <<OutConflicts[q][2], OutConflicts[q][1]>>

\* C35: ValidateAxisBinding fails for an empty axis name, for an empty list
\* of axis key bindings, for an inner axis key binding that fails its
\* validation, for a dead zone outside [0, 1] and for a sensitivity outside
\* [0.1, 10], and succeeds otherwise.
C35_AxisBindingValidation ==
    managerCall.op = "ValidateAxisBinding"
        => LET Binding == managerCall.binding
           IN  managerCall.ret.ret
                 <=> ~ \/ Binding.InputAxisName = NAME_None
                       \/ Binding.AxisBindings = <<>>
                       \/ \E k \in 1..Len(Binding.AxisBindings) :
                              ~ValidateAxisKeyBinding(Binding.AxisBindings[k], "").ret
                       \/ Binding.DeadZone < 0 \/ Binding.DeadZone > One
                       \/ Binding.Sensitivity < 10 \/ Binding.Sensitivity > 10 * One

\* C36: while the controller keeps the input component it got, every
\* created action that is listed in BoundActions has its five event
\* bindings on the input action object it has now, also after the profile
\* was applied again or the action was created again after
\* ClearAllMappings; so an event the host fires for a bound action is
\* broadcast.
C36_BoundMeansSubscribed ==
    /\ \A n \in DOMAIN CreatedInputActions \cap BoundActions :
          SubscribedOn(n, InputComponent)
    /\ (lastCall.op = "HostActionEvent" /\ lastCall.arg \in BoundActions)
          => lastCall.count >= 1

\* C37: in every reachable state every name in BoundActions or in
\* PendingBindActions is the name of an action in CreatedInputActions.
C37_BoundAndPendingAreCreated ==
    BoundActions \cup PendingBindActions \subseteq DOMAIN CreatedInputActions

\* C38: whatever input components the controller gets one after another,
\* one it had before included, an input component holds at most one binding
\* for an action object and a trigger event, and an event the host fires is
\* broadcast at most once on the dispatcher of its trigger event.
C38_NoDuplicateSubscription ==
    /\ \A b \in BagToSet(Subscriptions) : CopiesIn(b, Subscriptions) <= 1
    /\ lastCall.op = "HostActionEvent"
          => Count(Emitted, DispatcherOf(lastCall.event), lastCall.arg) <= 1

\* How many negate modifiers a list of modifiers holds.
Negates(Modifiers) ==
    Cardinality({m \in DOMAIN Modifiers : Modifiers[m].Modifier = "Negate"})

\* C39: after ApplyProfile, for an enabled axis binding with bInvert the
\* value of each of its keys passes an odd number of negate modifiers that
\* stand for the inversion: those of the key's mapping, the one for a
\* negative scale left aside, and those of the action.  Stated for axis
\* bindings that share their name with no action binding of the profile.
C39_InversionTakesEffect ==
    [][lastCall'.op = "ApplyProfile"
          => LET P == lastCall'.arg
             IN  \A i \in EnabledAxes(P) :
                    LET x == P.AxisBindings[i]
                        Action == CreatedInputActions'[x.InputAxisName]
                    IN  (/\ x.bInvert
                         /\ \A a \in EnabledActions(P) :
                               P.ActionBindings[a].InputActionName # x.InputAxisName)
                        => \A k \in DOMAIN x.AxisBindings :
                           \A m \in MappingsOf(MappingContext', Action.Id,
                                               x.AxisBindings[k].Key) :
                              (Negates(MappingContext'.Mappings[m].Modifiers)
                                 - (IF x.AxisBindings[k].Scale < 0 THEN 1 ELSE 0)
                                 + Negates(Action.Modifiers)) % 2 = 1]_vars

(***************************************************************************)
(* SpecHelpers: the profile of LocalPC is changed by the mutation helpers  *)
(* and handed to the player's integration now and then.                    *)
(***************************************************************************)
MaxHelperBindings == 2

\* The profile of LocalPC holds at most MaxHelperBindings bindings, actions
\* and axes together.
SmallProfile ==
    \A c \in DOMAIN PlayerDataMap :
        Len(PlayerDataMap[c].ActiveProfile.ActionBindings)
            + Len(PlayerDataMap[c].ActiveProfile.AxisBindings) <= MaxHelperBindings

MaxAppliedBindings == 1

\* The profile handed to the integration holds at most MaxAppliedBindings
\* bindings.
SmallApplication ==
    \A c \in DOMAIN PlayerDataMap :
        Len(PlayerDataMap[c].ActiveProfile.ActionBindings)
            + Len(PlayerDataMap[c].ActiveProfile.AxisBindings) <= MaxAppliedBindings

NextHelpers ==
    \/ CallRegisterPlayer({"LocalPC"})
    \/ CallSetPlayerActionBinding({"LocalPC"}) /\ SmallProfile'
    \/ CallAddKeyToAction({"LocalPC"}) /\ SmallProfile'
    \/ CallRemoveKeyFromAction({"LocalPC"}) /\ SmallProfile'
    \/ CallSetPrimaryKeyForAction({"LocalPC"}) /\ SmallProfile'
    \/ CallClearActionKeys({"LocalPC"}) /\ SmallProfile'
    \/ CallSwapActionBindings({"LocalPC"}) /\ SmallProfile'
    \/ CallSetAxisSensitivity({"LocalPC"}) /\ SmallProfile'
    \/ CallSetAxisDeadZone({"LocalPC"}) /\ SmallProfile'
    \/ SmallApplication /\ CallApplyPlayerProfileToEnhancedInput({"LocalPC"})

SpecHelpers == Init /\ [][NextHelpers]_vars

HelperOps ==
    {"SetPlayerActionBinding", "AddKeyToAction", "RemoveKeyFromAction",
     "SetPrimaryKeyForAction", "ClearActionKeys", "SwapActionBindings",
     "SetAxisSensitivity", "SetAxisDeadZone"}

\* C40: a per-player mutation helper changes at most the player's active
\* profile: the created actions, the mapping context, BoundActions and
\* PendingBindActions of every integration are what they were before the
\* call, and so stay until the profile is applied.
C40_HelpersLeaveTheIntegration ==
    [][managerCall'.op \in HelperOps
          => /\ Len(Integrations') = Len(Integrations)
             /\ \A i \in 1..Len(Integrations) :
                   /\ Integrations'[i].Engine.CreatedInputActions
                          = Integrations[i].Engine.CreatedInputActions
                   /\ Integrations'[i].Engine.MappingContext
                          = Integrations[i].Engine.MappingContext
                   /\ Integrations'[i].Engine.BoundActions
                          = Integrations[i].Engine.BoundActions
                   /\ Integrations'[i].Engine.PendingBindActions
                          = Integrations[i].Engine.PendingBindActions
             /\ Integrations' = Integrations
             /\ ProfileTemplates' = ProfileTemplates
             /\ DOMAIN PlayerDataMap' = DOMAIN PlayerDataMap
             /\ \A c \in DOMAIN PlayerDataMap :
                   [PlayerDataMap'[c] EXCEPT !.ActiveProfile =
                       PlayerDataMap[c].ActiveProfile] = PlayerDataMap[c]]_vars

\* The sensitivity of an axis has just been set in the profile of LocalPC,
\* whose integration has the action of the axis from an earlier
\* application, still without a scalar.
C40_Witness ==
    /\ managerCall.op = "SetAxisSensitivity"
    /\ managerCall.ret = TRUE
    /\ "LocalPC" \in DOMAIN PlayerDataMap
    /\ LET Engine == Integrations[PlayerDataMap["LocalPC"].Integration].Engine
       IN  /\ managerCall.name \in DOMAIN Engine.CreatedInputActions
           /\ \A i \in DOMAIN Engine.CreatedInputActions[managerCall.name].Modifiers :
                 Engine.CreatedInputActions[managerCall.name].Modifiers[i].Modifier
                     # "Scalar"

====
